---- MODULE Spec2Model ----
(***************************************************************************)
(* A model of the orbit day planner: the route optimizer                   *)
(* (services/optimizer.py), the day scheduler (services/planner.py), the   *)
(* rate-limit gate of the primary geocoder (services/places.py), the place *)
(* resolver (services/resolver.py), the routing (services/routing.py) and  *)
(* the cache table (db.py).                                                *)
(*                                                                         *)
(* Each subsystem has its own variables and its own specification; the     *)
(* variables of the other subsystems are held at their initial value.      *)
(***************************************************************************)
EXTENDS Integers, Sequences, FiniteSets, TLC

VARIABLES
    \* ---- optimizer.optimize_route (one call in progress) ----
    o_pc,        \* "call" | "nn" | "twoopt" | "done" | "off"
    o_entry,     \* the function called: "optimize_route" | "optimize_2opt"
    o_start,     \* start coordinate
    o_stops,     \* the stops, in input order
    o_ret,       \* return_to_start
    o_order,     \* order under construction (stop indices, 0-based as in the code)
    o_visited,   \* optimize_nearest_neighbor: visited
    o_cur,       \* optimize_nearest_neighbor: current coordinate
    o_best,      \* optimize_2opt: best_distance
    o_improved,  \* optimize_2opt: improved
    o_iter,      \* optimize_2opt: iterations
    o_max,       \* optimize_2opt: max_iterations
    o_result,    \* the OptimizedRoute returned (NoResult before)
    \* ---- places._rate_limit (the gate of the primary geocoder) ----
    g_now,       \* time.time(), in ticks
    g_last,      \* _last_request_time
    g_pc,        \* per thread: "idle" | "sleep" | "write"
    g_wake,      \* per thread: the time its time.sleep ends
    g_calls,     \* per thread: calls of _rate_limit begun
    g_released,  \* the times at which _rate_limit let a request through, in order
    \* ---- planner.generate_plan (one call in progress) ----
    p_pc,        \* "start" | "greedy" | "backfill" | "finish" | "done" | "off"
    p_tasks,     \* all_tasks: tasks_service.get_tasks_for_date(plan_date)
    p_blocks,    \* fixed_blocks: tasks_service.get_fixed_blocks_for_date(plan_date)
    p_ret,       \* return_home
    p_scheduled, \* scheduled
    p_overflow,  \* overflow
    p_time,      \* current_time
    p_pos,       \* (current_lat, current_lon)
    p_done,      \* scheduled_task_ids
    p_windows,   \* errand_windows
    p_travel,    \* total_travel_minutes
    p_result,    \* the diagnostics of the PlanResult returned
    \* ---- resolver.resolve_place and resolver.select_candidate ----
    r_pc,        \* "tier1" | "tier2" | "tier3" | "tier4" | "decide" | "done" | "off"
    r_env,       \* GEMINI_AVAILABLE, GOOGLE_PLACES_AVAILABLE, TAVILY_AVAILABLE
    r_home,      \* settings.has_home_location
    r_outage,    \* the network is down: every request of a provider fails
    r_ctx,       \* user_city and user_state
    r_cands,     \* candidates
    r_llm,       \* llm_validation
    r_heap,      \* the ScoredCandidate objects
    r_places,    \* the ResolvedPlace objects returned so far
    r_selects,   \* calls of select_candidate so far
    r_asked,     \* the requests the running resolve_place has made, in order, and what each found
    r_call,      \* the last call of select_candidate: its arguments and what it returned
    \* ---- routing.get_route ----
    rt_cache,    \* the route entries of the cache table, by (origin, destination)
    rt_call,     \* the last call of get_route: its arguments, what the primary
                 \* service did, and what the call returned or raised
    rt_calls,    \* calls of get_route so far
    \* ---- the ranking of resolver.resolve_place, function by function ----
    k_pc,        \* the function applied next
    k_places,    \* the places found
    k_route,     \* prev_stop, is_last_stop and return_home
    k_limit,     \* limit
    k_in,        \* the list given to the function applied last, and the candidates then
    k_out,       \* the list it returned, and the candidates after it
    k_auto,      \* what should_auto_select returned
    \* ---- the cache table of db, under routing.get_route ----
    c_now,       \* datetime.now(), in ticks
    c_table,     \* the rows of the cache table, by key
    c_up,        \* the primary routing service answers
    c_call,      \* the last operation on the cache: its arguments, the row before it,
                 \* whether the provider was asked, and what it returned
    c_calls,     \* operations on the cache so far
    \* ---- resolver.filter_osm_results ----
    f_pc,        \* "call" before the call, "done" after it
    f_candidates,          \* candidates
    f_max_distance_miles,  \* max_distance_miles
    f_filtered   \* the list returned

optVars == <<o_pc, o_entry, o_start, o_stops, o_ret, o_order, o_visited, o_cur,
             o_best, o_improved, o_iter, o_max, o_result>>

gateVars == <<g_now, g_last, g_pc, g_wake, g_calls, g_released>>

planVars == <<p_pc, p_tasks, p_blocks, p_ret, p_scheduled, p_overflow, p_time, p_pos,
              p_done, p_windows, p_travel, p_result>>

resVars == <<r_pc, r_env, r_home, r_outage, r_ctx, r_cands, r_llm, r_heap, r_places, r_selects,
            r_asked, r_call>>

routeVars == <<rt_cache, rt_call, rt_calls>>

rankVars == <<k_pc, k_places, k_route, k_limit, k_in, k_out, k_auto>>

cacheVars == <<c_now, c_table, c_up, c_call, c_calls>>

filterVars == <<f_pc, f_candidates, f_max_distance_miles, f_filtered>>

vars == <<optVars, gateVars, planVars, resVars, routeVars, rankVars, cacheVars, filterVars>>

\* The variables of the subsystems other than the one named.
notOptVars == <<gateVars, planVars, resVars, routeVars, rankVars, cacheVars, filterVars>>

notGateVars == <<optVars, planVars, resVars, routeVars, rankVars, cacheVars, filterVars>>

notPlanVars == <<optVars, gateVars, resVars, routeVars, rankVars, cacheVars, filterVars>>

notResVars == <<optVars, gateVars, planVars, routeVars, rankVars, cacheVars, filterVars>>

notRouteVars == <<optVars, gateVars, planVars, resVars, rankVars, cacheVars, filterVars>>

notRankVars == <<optVars, gateVars, planVars, resVars, routeVars, cacheVars, filterVars>>

notCacheVars == <<optVars, gateVars, planVars, resVars, routeVars, rankVars, filterVars>>

notFilterVars == <<optVars, gateVars, planVars, resVars, routeVars, rankVars, cacheVars>>

None == "None"

Abs(x) == IF x < 0 THEN -x ELSE x

Max2(a, b) == IF a >= b THEN a ELSE b

Min2(a, b) == IF a <= b THEN a ELSE b

RECURSIVE SeqSum(_)
SeqSum(s) == IF s = <<>> THEN 0 ELSE Head(s) + SeqSum(Tail(s))

SetMin(S) == CHOOSE x \in S : \A y \in S : x <= y

SetMax(S) == CHOOSE x \in S : \A y \in S : x >= y

(***************************************************************************)
(*                          ROUTE OPTIMIZER                                *)
(*                                                                         *)
(* Stops lie on one meridian, at integer multiples of a latitude step, so  *)
(* that the haversine distance of two stops is the length of the arc       *)
(* between them: UnitMetres metres per step.  Distances are in metres.     *)
(***************************************************************************)

\* Largest coordinate of a stop (in latitude steps).
MaxCoord == 5

\* Metres of great-circle distance per latitude step (0.01 degree).
UnitMetres == 1112

\* optimize_route: "if n <= 6" chooses brute force.
BRUTE_FORCE_MAX == 6

\* optimize_2opt: the default of max_iterations.
MAX_ITERATIONS == 1000

\* optimize_2opt: the epsilon 0.001 km, in metres.
EPSILON_M == 1

\* The longest stop list: the shortest one brute force is not used for.
MaxStops == BRUTE_FORCE_MAX + 1

\* The longest stop list whose stops are all drawn freely.
MaxFreeStops == BRUTE_FORCE_MAX \div 2

\* The start of the route: the middle of the stops' range.
StartCoord == MaxCoord \div 2

Coords == 0..MaxCoord

\* routing.haversine_distance for two points of the meridian, in metres.
haversine_distance(a, b) == Abs(a - b) * UnitMetres

\* round(km, 2): a distance in metres rounded to 10 m, half up.
round2(m) == ((m + 5) \div 10) * 10

Last(s) == s[Len(s)]

RECURSIVE LegSum(_, _, _)
\* calculate_route_distance: the loop over consecutive stops, from position i on.
LegSum(stops, order, i) ==
    IF i >= Len(order) THEN 0
    ELSE haversine_distance(stops[order[i] + 1], stops[order[i + 1] + 1])
         + LegSum(stops, order, i + 1)

\* calculate_route_distance: order holds 0-based stop indices.
calculate_route_distance(start, stops, order, ret) ==
    IF order = <<>> THEN 0
    ELSE haversine_distance(start, stops[order[1] + 1])
         + LegSum(stops, order, 1)
         + (IF ret THEN haversine_distance(stops[Last(order) + 1], start) ELSE 0)

RECURSIVE LexPerms(_), LexPermsFirst(_, _)
\* itertools.permutations(range(n)): the permutations of S in lexicographic order.
LexPerms(S) == IF S = {} THEN << <<>> >> ELSE LexPermsFirst(S, S)

\* The permutations of S whose first element is in T, smallest first element first.
LexPermsFirst(S, T) ==
    IF T = {} THEN <<>>
    ELSE LET x == SetMin(T)
             rest == LexPerms(S \ {x})
         IN [k \in 1..Len(rest) |-> <<x>> \o rest[k]] \o LexPermsFirst(S, T \ {x})

\* permutations(range(n)) for every n brute force is used with.
PermTable == [n \in 0..BRUTE_FORCE_MAX |-> LexPerms(0..(n - 1))]

\* list(range(n))
RangeOrder(n) == [i \in 1..n |-> i - 1]

\* The test of optimize_brute_force with "<=" for "<".
ShorterOrEqual(distance, best_distance) == distance <= best_distance

\* optimize_brute_force: "if distance < best_distance".
Shorter(distance, best_distance) == distance < best_distance

RECURSIVE BruteForceLoop(_, _, _, _, _, _, _)
\* optimize_brute_force: the iterations lo..hi of "for perm in permutations(range(n))",
\* in order, from acc = <<best_order, best_distance>>; an order replaces the best one
\* only when it is strictly shorter.  (The range is split in halves to keep the
\* evaluation shallow; the iterations still take effect left to right.)
BruteForceLoop(start, stops, ret, perms, lo, hi, acc) ==
    IF lo > hi THEN acc
    ELSE IF lo = hi
    THEN LET distance == calculate_route_distance(start, stops, perms[lo], ret)
         IN IF Shorter(distance, acc[2]) THEN <<perms[lo], distance>> ELSE acc
    ELSE LET mid == (lo + hi) \div 2
             left == BruteForceLoop(start, stops, ret, perms, lo, mid, acc)
         IN \* no order is strictly shorter than one of distance 0
            IF left[2] = 0 THEN left
            ELSE BruteForceLoop(start, stops, ret, perms, mid + 1, hi, left)

\* optimize_brute_force for n >= 2: best_order starts as list(range(n)).
BruteForceScan(start, stops, ret) ==
    LET n == Len(stops)
        perms == PermTable[n]
        init == <<RangeOrder(n), calculate_route_distance(start, stops, RangeOrder(n), ret)>>
    IN BruteForceLoop(start, stops, ret, perms, 1, Len(perms), init)

optimize_brute_force(start, stops, ret) ==
    LET n == Len(stops)
    IN IF n = 0 THEN <<<<>>, 0>>
       ELSE IF n = 1 THEN <<<<0>>, calculate_route_distance(start, stops, <<0>>, ret)>>
       ELSE BruteForceScan(start, stops, ret)

RECURSIVE NearestScan(_, _, _, _, _, _)
\* optimize_nearest_neighbor: the inner for loop from index i on; returns best_idx
\* (-1 when every stop is visited).  best_dist = -1 stands for float('inf').
NearestScan(stops, visited, cur, i, best_idx, best_dist) ==
    IF i >= Len(stops) THEN best_idx
    ELSE IF i \in visited THEN NearestScan(stops, visited, cur, i + 1, best_idx, best_dist)
    ELSE LET dist == haversine_distance(cur, stops[i + 1])
         IN IF best_dist = -1 \/ dist < best_dist
            THEN NearestScan(stops, visited, cur, i + 1, i, dist)
            ELSE NearestScan(stops, visited, cur, i + 1, best_idx, best_dist)

\* The reversal with the segment's mirror taken one position too far left.
ReverseSegmentOffByOne(order, i, j) ==
    [p \in 1..Len(order) |->
        IF p >= i + 2 /\ p <= j + 1 THEN order[(i + 1) + (j + 1) - p] ELSE order[p]]

\* order[:i + 1] + order[i + 1:j + 1][::-1] + order[j + 1:]   (i, j 0-based)
ReverseSegment(order, i, j) ==
    [p \in 1..Len(order) |->
        IF p >= i + 2 /\ p <= j + 1 THEN order[(i + 2) + (j + 1) - p] ELSE order[p]]

\* The acceptance test that also takes a reversal of the same distance.
ImprovesOrTies(new_distance, best_distance) == new_distance <= best_distance

\* optimize_2opt: the acceptance test of a reversal.
Improves(new_distance, best_distance) == new_distance < best_distance - EPSILON_M

RECURSIVE TwoOptScan(_, _, _, _, _, _, _)
\* optimize_2opt: one pass of the two nested for loops from (i, j) on; returns the
\* first accepted new order with its distance, or <<>> when no reversal is accepted.
TwoOptScan(start, stops, ret, order, best_distance, i, j) ==
    LET n == Len(stops)
    IN IF i >= n - 1 THEN <<>>
       ELSE IF j >= n THEN TwoOptScan(start, stops, ret, order, best_distance, i + 1, i + 3)
       ELSE LET new_order == ReverseSegment(order, i, j)
                new_distance == calculate_route_distance(start, stops, new_order, ret)
            IN IF Improves(new_distance, best_distance)
               THEN <<new_order, new_distance>>
               ELSE TwoOptScan(start, stops, ret, order, best_distance, i, j + 1)

\* OptimizedRoute as optimize_route builds it (distances rounded to 0.01 km).
OptimizedRoute(order, best_distance, naive_distance, method) ==
    [stop_order |-> order,
     total_distance_km |-> round2(best_distance),
     naive_distance_km |-> round2(naive_distance),
     savings_km |-> round2(Max2(0, naive_distance - best_distance)),
     method |-> method]

\* No OptimizedRoute yet.
NoResult == [method |-> "pending"]

NaiveDistance == calculate_route_distance(o_start, o_stops, RangeOrder(Len(o_stops)), o_ret)

\* Repeat(x, k): k copies of x.
Repeat(x, k) == [i \in 1..k |-> x]

\* The stop lists the model draws: every list over Coords of at most MaxFreeStops
\* stops, and - to reach the lengths brute force is slow for and the length where
\* nearest neighbour and 2-opt take over - those of MaxFreeStops stops followed by
\* further visits to their last stop, up to MaxStops stops.
OptStopLists ==
    (UNION {[1..n -> Coords] : n \in 0..MaxFreeStops})
    \cup {s \o Repeat(Last(s), k) : s \in [1..MaxFreeStops -> Coords],
                                    k \in 1..(MaxStops - MaxFreeStops)}

\* The stop lists optimize_2opt is called with by itself: every list over Coords of
\* at most MaxFreeStops stops, and those of one stop more at the ends and the
\* middle of the range, where one reversal can follow another.
TwoOptStopLists ==
    (UNION {[1..n -> Coords] : n \in 0..MaxFreeStops})
    \cup [1..(MaxFreeStops + 1) -> {0, StartCoord, MaxCoord}]

\* The calls the model draws: optimize_route on a stop list, or optimize_2opt
\* itself on a freely drawn stop list and any initial order of its stops.
OptInit ==
    /\ o_pc = "call"
    /\ o_start = StartCoord
    /\ o_ret \in BOOLEAN
    /\ \/ /\ o_entry = "optimize_route"
          /\ o_stops \in OptStopLists
          /\ o_order = <<>>
          /\ o_max = MAX_ITERATIONS
       \/ /\ o_entry = "optimize_2opt"
          /\ o_max \in {1, MAX_ITERATIONS}
          /\ o_stops \in TwoOptStopLists
          /\ o_order \in {PermTable[Len(o_stops)][k] : k \in 1..Len(PermTable[Len(o_stops)])}
    /\ o_visited = {}
    /\ o_cur = 0
    /\ o_best = 0
    /\ o_improved = FALSE
    /\ o_iter = 0
    /\ o_result = NoResult

\* optimize_route up to the choice of the method; n = 0, n = 1 and brute force
\* return at once, a longer list enters optimize_nearest_neighbor.
OptCall ==
    /\ UNCHANGED notOptVars
    /\ o_pc = "call"
    /\ o_entry = "optimize_route"
    /\ LET n == Len(o_stops)
       IN IF n = 0
          THEN /\ o_result' = [stop_order |-> <<>>, total_distance_km |-> 0,
                               naive_distance_km |-> 0, savings_km |-> 0, method |-> "none"]
               /\ o_pc' = "done"
               /\ UNCHANGED <<o_cur>>
          ELSE IF n = 1
          THEN /\ o_result' = [stop_order |-> <<0>>, total_distance_km |-> NaiveDistance,
                               naive_distance_km |-> NaiveDistance, savings_km |-> 0,
                               method |-> "single_stop"]
               /\ o_pc' = "done"
               /\ UNCHANGED <<o_cur>>
          ELSE IF n <= BRUTE_FORCE_MAX
          THEN /\ LET bf == optimize_brute_force(o_start, o_stops, o_ret)
                  IN o_result' = OptimizedRoute(bf[1], bf[2], NaiveDistance, "brute_force")
               /\ o_pc' = "done"
               /\ UNCHANGED <<o_cur>>
          ELSE /\ o_pc' = "nn"
               /\ o_cur' = o_start
               /\ o_result' = o_result
    /\ UNCHANGED <<o_entry, o_start, o_stops, o_ret, o_order, o_visited, o_best, o_improved, o_iter, o_max>>

\* optimize_nearest_neighbor: one iteration of "while len(visited) < n".
NNStep ==
    /\ UNCHANGED notOptVars
    /\ o_pc = "nn"
    /\ Cardinality(o_visited) < Len(o_stops)
    /\ LET best_idx == NearestScan(o_stops, o_visited, o_cur, 0, -1, -1)
       IN IF best_idx >= 0
          THEN /\ o_visited' = o_visited \cup {best_idx}
               /\ o_order' = Append(o_order, best_idx)
               /\ o_cur' = o_stops[best_idx + 1]
          ELSE UNCHANGED <<o_visited, o_order, o_cur>>
    /\ UNCHANGED <<o_pc, o_entry, o_start, o_stops, o_ret, o_best, o_improved, o_iter, o_max, o_result>>

\* optimize_2opt is entered, from optimize_route when optimize_nearest_neighbor
\* has returned its order, or called with an initial order of its own; with
\* n <= 2 it returns the initial order as it is.
TwoOptStart ==
    /\ UNCHANGED notOptVars
    /\ \/ o_pc = "nn" /\ Cardinality(o_visited) >= Len(o_stops)
       \/ o_pc = "call" /\ o_entry = "optimize_2opt"
    /\ o_pc' = "twoopt"
    /\ o_best' = calculate_route_distance(o_start, o_stops, o_order, o_ret)
    /\ o_improved' = (Len(o_stops) > 2)
    /\ o_iter' = 0
    /\ UNCHANGED <<o_entry, o_start, o_stops, o_ret, o_order, o_visited, o_cur, o_max, o_result>>

\* optimize_2opt: one iteration of "while improved and iterations < max_iterations".
TwoOptIter ==
    /\ UNCHANGED notOptVars
    /\ o_pc = "twoopt"
    /\ o_improved /\ o_iter < o_max
    /\ o_iter' = o_iter + 1
    /\ LET hit == TwoOptScan(o_start, o_stops, o_ret, o_order, o_best, 0, 2)
       IN IF hit = <<>>
          THEN /\ o_improved' = FALSE
               /\ UNCHANGED <<o_order, o_best>>
          ELSE /\ o_improved' = TRUE
               /\ o_order' = hit[1]
               /\ o_best' = hit[2]
    /\ UNCHANGED <<o_pc, o_entry, o_start, o_stops, o_ret, o_visited, o_cur, o_max, o_result>>

\* optimize_2opt returns and optimize_route builds its result.
TwoOptReturn ==
    /\ UNCHANGED notOptVars
    /\ o_pc = "twoopt"
    /\ ~(o_improved /\ o_iter < o_max)
    /\ o_result' = IF o_entry = "optimize_route"
                   THEN OptimizedRoute(o_order, o_best, NaiveDistance, "nearest_neighbor_2opt")
                   ELSE [stop_order |-> o_order, distance |-> o_best, method |-> "2opt"]
    /\ o_pc' = "done"
    /\ UNCHANGED <<o_entry, o_start, o_stops, o_ret, o_order, o_visited, o_cur, o_best,
                   o_improved, o_iter, o_max>>

OptNext == OptCall \/ NNStep \/ TwoOptStart \/ TwoOptIter \/ TwoOptReturn

\* No call of the optimizer.
OptOff ==
    /\ o_pc = "off" /\ o_entry = "optimize_route" /\ o_start = 0 /\ o_stops = <<>>
    /\ o_ret = FALSE /\ o_order = <<>> /\ o_visited = {} /\ o_cur = 0 /\ o_best = 0
    /\ o_improved = FALSE /\ o_iter = 0 /\ o_max = 0 /\ o_result = NoResult

(***************************************************************************)
(*                 RATE-LIMIT GATE OF THE PRIMARY GEOCODER                 *)
(*                                                                         *)
(* _rate_limit reads the clock and _last_request_time, sleeps for the rest *)
(* of the interval, and then stores the clock in _last_request_time; the   *)
(* caller sends its request when it returns.  The function takes no lock,  *)
(* so threads interleave between these steps.  Time is counted in ticks.   *)
(***************************************************************************)

\* config.NOMINATIM_RATE_LIMIT_SECONDS
NOMINATIM_RATE_LIMIT_SECONDS == 1

\* Clock ticks per second.
TicksPerSecond == 2

\* Threads calling the geocoder adapter.
NumThreads == 2

\* Calls of _rate_limit per thread.
MaxCallsPerThread == 2

\* The clock stops advancing here.
MaxTime == 8

Threads == 1..NumThreads

RateLimitTicks == NOMINATIM_RATE_LIMIT_SECONDS * TicksPerSecond

\* The module is loaded with _last_request_time = 0, long before the first call.
GateInit ==
    /\ g_now = RateLimitTicks
    /\ g_last = 0
    /\ g_pc = [t \in Threads |-> "idle"]
    /\ g_wake = [t \in Threads |-> 0]
    /\ g_calls = [t \in Threads |-> 0]
    /\ g_released = <<>>

\* elapsed = time.time() - _last_request_time, and the test elapsed < limit:
\* the thread goes to sleep for limit - elapsed, or straight on to the store.
GateRead(t) ==
    /\ UNCHANGED notGateVars
    /\ g_pc[t] = "idle"
    /\ g_calls[t] < MaxCallsPerThread
    /\ g_calls' = [g_calls EXCEPT ![t] = @ + 1]
    /\ LET elapsed == g_now - g_last
       IN IF elapsed < RateLimitTicks
          THEN /\ g_pc' = [g_pc EXCEPT ![t] = "sleep"]
               /\ g_wake' = [g_wake EXCEPT ![t] = g_now + (RateLimitTicks - elapsed)]
          ELSE /\ g_pc' = [g_pc EXCEPT ![t] = "write"]
               /\ UNCHANGED g_wake
    /\ UNCHANGED <<g_now, g_last, g_released>>

\* time.sleep returns, no earlier than asked.
GateWake(t) ==
    /\ UNCHANGED notGateVars
    /\ g_pc[t] = "sleep"
    /\ g_now >= g_wake[t]
    /\ g_pc' = [g_pc EXCEPT ![t] = "write"]
    /\ UNCHANGED <<g_now, g_last, g_wake, g_calls, g_released>>

\* _last_request_time = time.time(); _rate_limit returns and the request goes out.
GateWrite(t) ==
    /\ UNCHANGED notGateVars
    /\ g_pc[t] = "write"
    /\ g_last' = g_now
    /\ g_released' = Append(g_released, g_now)
    /\ g_pc' = [g_pc EXCEPT ![t] = "idle"]
    /\ UNCHANGED <<g_now, g_wake, g_calls>>

\* The clock advances.
GateTick ==
    /\ UNCHANGED notGateVars
    /\ g_now < MaxTime
    /\ g_now' = g_now + 1
    /\ UNCHANGED <<g_last, g_pc, g_wake, g_calls, g_released>>

GateNext ==
    \/ \E t \in Threads : GateRead(t) \/ GateWake(t) \/ GateWrite(t)
    \/ GateTick

\* No thread has called the gate.
GateOff ==
    /\ g_now = 0 /\ g_last = 0 /\ g_pc = <<>> /\ g_wake = <<>> /\ g_calls = <<>>
    /\ g_released = <<>>

(***************************************************************************)
(*                             DAY SCHEDULER                               *)
(*                                                                         *)
(* Times are counted in ticks from midnight of the plan date, a tick being *)
(* a tenth of a minute: the resolution of the route durations get_route    *)
(* returns.  Places lie on a line, home at HomePos, and the duration of a  *)
(* route is proportional to its length.                                    *)
(***************************************************************************)

\* Ticks per minute.
PlanTicksPerMinute == 10

\* Ticks of driving per step between two places.
TravelTicksPerStep == 155

\* The most fixed blocks of the plan date, and the most tasks and blocks together.
MaxBlocks == 2

MaxEntries == 3

\* settings.default_work_start and settings.default_work_end, in minutes.
WorkStartMinute == 30

WorkEndMinute == 150

Minutes(m) == m * PlanTicksPerMinute

\* None, for a time, a place, a due date, a task and a number of minutes.
NoTime == -1

NoLoc == -1

NoDue == -100

NoTask == 0

NoMinutes == -1

\* (settings.home_lat, settings.home_lon)
HomePos == 0

\* combine_date_time(plan_date, work_start) and combine_date_time(plan_date, work_end)
DayStart == Minutes(WorkStartMinute)

DayEnd == Minutes(WorkEndMinute)

\* calculate_priority_score: the factor of the priority and the boosts by due date.
PRIORITY_WEIGHT == 10

DUE_TODAY_BOOST == 100

DUE_TOMORROW_BOOST == 50

DUE_SOON_BOOST == 20

DUE_SOON_DAYS == 3

\* generate_plan: score = priority_score - travel_minutes * 2.
TRAVEL_WEIGHT == 2

\* generate_suggestions: the thresholds and the length of the list.
OVERTIME_SHIFT_MAX_MIN == 60

SHIFT_STEP_MIN == 15

DROP_SAVES_PERCENT == 70

LONG_TASK_MIN == 30

LONG_TRAVEL_MIN == 15

MAX_CLOSER == 2

MAX_SUGGESTIONS == 5

\* Task.has_location
has_location(task) == task.loc # NoLoc

\* tasks_service.get_location_based_tasks keeps the tasks with this property,
\* tasks_service.get_home_based_tasks the others.
IsErrand(task) == has_location(task) /\ task.location_based

\* An overlap test that finds nothing.
overlapsNever(s1, e1, s2, e2) == FALSE

\* TimeWindow.overlaps, for the windows [s1, e1] and [s2, e2].
overlaps(s1, e1, s2, e2) == s1 < e2 /\ s2 < e1

\* No TimeWindow (None).
NoWindow == [start |-> NoTime, end |-> NoTime]

\* The feasible window with a task refused that fills its window exactly.
get_task_feasible_window_strict(task, work_start, work_end) ==
    LET s1 == IF task.open # NoTime THEN Max2(work_start, task.open) ELSE work_start
        e1 == IF task.close # NoTime THEN Min2(work_end, task.close) ELSE work_end
        s2 == IF task.earliest # NoTime THEN Max2(s1, task.earliest) ELSE s1
        e2 == IF task.latest # NoTime THEN Min2(e1, task.latest) ELSE e1
    IN IF s2 >= e2 THEN NoWindow
       ELSE IF e2 - s2 <= Minutes(task.duration_minutes) THEN NoWindow
       ELSE [start |-> s2, end |-> e2]

\* get_task_feasible_window; task.duration_minutes is in minutes, the times in ticks.
get_task_feasible_window(task, work_start, work_end) ==
    LET s1 == IF task.open # NoTime THEN Max2(work_start, task.open) ELSE work_start
        e1 == IF task.close # NoTime THEN Min2(work_end, task.close) ELSE work_end
        s2 == IF task.earliest # NoTime THEN Max2(s1, task.earliest) ELSE s1
        e2 == IF task.latest # NoTime THEN Min2(e1, task.latest) ELSE e1
    IN IF s2 >= e2 THEN NoWindow
       ELSE IF e2 - s2 < Minutes(task.duration_minutes) THEN NoWindow
       ELSE [start |-> s2, end |-> e2]

\* calculate_priority_score; task.due is (task.due_date - plan_date).days.
calculate_priority_score(task) ==
    task.priority * PRIORITY_WEIGHT
      + (IF task.due = NoDue THEN 0
         ELSE IF task.due <= 0 THEN DUE_TODAY_BOOST
         ELSE IF task.due = 1 THEN DUE_TOMORROW_BOOST
         ELSE IF task.due <= DUE_SOON_DAYS THEN DUE_SOON_BOOST
         ELSE 0)

\* routing.get_route(...).duration_minutes between two places, in ticks.
route_duration(from, to) == Abs(from - to) * TravelTicksPerStep

\* int(minutes) of a duration in ticks.
IntMinutes(ticks) == ticks \div PlanTicksPerMinute

\* "x or 0" for an optional number of minutes.
OrZero(x) == IF x = NoMinutes THEN 0 ELSE x

\* ScheduledItem
ScheduledItem(type, start, end, task, travel_minutes) ==
    [type |-> type, start |-> start, end |-> end, task |-> task,
     travel_minutes |-> travel_minutes]

\* OverflowTask
OverflowTask(task, reason) == [task |-> task, reason |-> reason]

\* Lexicographic order of the keys <<k1, k2>> heading two entries.
KeyLeq(a, b) == a[1] < b[1] \/ (a[1] = b[1] /\ a[2] <= b[2])

RECURSIVE InsertStable(_, _)
\* x inserted into a sorted sequence behind every entry whose key is not larger.
InsertStable(sorted, x) ==
    IF sorted = <<>> THEN <<x>>
    ELSE IF KeyLeq(Last(sorted), x) THEN Append(sorted, x)
    ELSE Append(InsertStable(SubSeq(sorted, 1, Len(sorted) - 1), x), Last(sorted))

RECURSIVE StableSort(_)
\* sorted(...) and list.sort(...): a stable sort of entries <<k1, k2, value>>.
StableSort(s) ==
    IF s = <<>> THEN <<>>
    ELSE InsertStable(StableSort(SubSeq(s, 1, Len(s) - 1)), Last(s))

\* scheduled.sort(key=lambda s: s.start), also sorted(scheduled_windows, ...).
SortByStart(items) ==
    LET keyed == [i \in 1..Len(items) |-> <<items[i].start, 0, items[i]>>]
        sorted == StableSort(keyed)
    IN [i \in 1..Len(items) |-> sorted[i][3]]

\* Fixed items for the blocks that end within the day only.
FixedItemsInDay(blocks) ==
    LET kept == SelectSeq(blocks, LAMBDA b : b.end <= DayEnd)
    IN [b \in 1..Len(kept) |->
           ScheduledItem("fixed", kept[b].start, kept[b].end, NoTask, NoMinutes)]

\* The fixed items generate_plan starts the schedule with, one for each block.
FixedItems(blocks) ==
    [b \in 1..Len(blocks) |->
        ScheduledItem("fixed", blocks[b].start, blocks[b].end, NoTask, NoMinutes)]

\* generate_plan: the task window of a candidate conflicts with a fixed block or
\* with an item already scheduled.
Conflict(start, end, blocks, scheduled) ==
    \/ \E b \in 1..Len(blocks) : overlaps(start, end, blocks[b].start, blocks[b].end)
    \/ \E i \in 1..Len(scheduled) : overlaps(start, end, scheduled[i].start, scheduled[i].end)

\* generate_plan: one errand examined by "for task in errand_tasks" at the current
\* time and place: whether it passes every "continue", and what is kept of it.
Candidate(k) ==
    LET task == p_tasks[k]
        window == p_windows[k]
        travel_minutes == route_duration(p_pos, task.loc)
        arrival_time == p_time + travel_minutes
        actual_start == Max2(arrival_time, window.start)
        task_end == actual_start + Minutes(task.duration_minutes)
    IN [task |-> k,
        feasible |-> /\ ~(arrival_time > window.end)
                     /\ ~(task_end > window.end)
                     /\ ~(task_end > DayEnd)
                     /\ ~Conflict(actual_start, task_end, p_blocks, p_scheduled),
        score |-> calculate_priority_score(task) * PlanTicksPerMinute
                    - travel_minutes * TRAVEL_WEIGHT,
        arrival_time |-> arrival_time,
        travel_minutes |-> travel_minutes]

\* best_task is None.
NoBest == [task |-> NoTask, feasible |-> FALSE, score |-> 0, arrival_time |-> NoTime,
           travel_minutes |-> 0]

\* The comparison that lets a later task of the same score replace the best one.
BetterOrTied(score, best) == best.task = NoTask \/ score >= best.score

\* generate_plan: "if score > best_score", best_score being -inf with no best task.
Better(score, best) == best.task = NoTask \/ score > best.score

RECURSIVE GreedyScan(_, _)
\* generate_plan: "for task in errand_tasks" from task k on; the best candidate.
GreedyScan(k, best) ==
    IF k > Len(p_tasks) THEN best
    ELSE IF ~IsErrand(p_tasks[k]) \/ k \in p_done \/ p_windows[k] = NoWindow
         THEN GreedyScan(k + 1, best)
    ELSE LET c == Candidate(k)
         IN IF c.feasible /\ Better(c.score, best)
            THEN GreedyScan(k + 1, c)
            ELSE GreedyScan(k + 1, best)

\* The ids of the tasks of a list, in the list's order.
TaskIds(tasks) == [k \in 1..Len(tasks) |-> k]

RECURSIVE MergeBusy(_, _, _)
\* generate_plan: "for w in all_busy" from window i on.
MergeBusy(all_busy, i, merged_busy) ==
    IF i > Len(all_busy) THEN merged_busy
    ELSE LET w == all_busy[i]
             n == Len(merged_busy)
         IN IF n > 0 /\ w.start <= merged_busy[n].end
            THEN MergeBusy(all_busy, i + 1,
                     [merged_busy EXCEPT ![n] =
                         [start |-> merged_busy[n].start,
                          end |-> Max2(merged_busy[n].end, w.end)]])
            ELSE MergeBusy(all_busy, i + 1, Append(merged_busy, w))

RECURSIVE FreeGaps(_, _, _, _)
\* generate_plan: "for busy in merged_busy" from window i on, and the last gap.
FreeGaps(merged_busy, i, gap_start, free_gaps) ==
    IF i > Len(merged_busy)
    THEN IF gap_start < DayEnd
         THEN Append(free_gaps, [start |-> gap_start, end |-> DayEnd])
         ELSE free_gaps
    ELSE LET busy == merged_busy[i]
         IN FreeGaps(merged_busy, i + 1, Max2(gap_start, busy.end),
                IF gap_start < busy.start
                THEN Append(free_gaps, [start |-> gap_start, end |-> busy.start])
                ELSE free_gaps)

\* The free gaps of the day around the scheduled items.
GapsOf(scheduled) ==
    LET windows == [i \in 1..Len(scheduled) |->
                       [start |-> scheduled[i].start, end |-> scheduled[i].end]]
    IN FreeGaps(MergeBusy(SortByStart(windows), 1, <<>>), 1, DayStart, <<>>)

\* list.remove(x): the list without the first entry equal to x.
RemoveFirst(s, x) ==
    LET i == CHOOSE j \in 1..Len(s) : s[j] = x /\ \A h \in 1..(j - 1) : s[h] # x
    IN SubSeq(s, 1, i - 1) \o SubSeq(s, i + 1, Len(s))

\* generate_plan: "if gap.duration_minutes >= task.duration_minutes".
GapFits(gap, task) == gap.end - gap.start >= Minutes(task.duration_minutes)

\* date.max, as a number of days from the plan date.
DateMax == 1000000

\* sorted(home_tasks, key=lambda t: (t.due_date or date.max, -t.priority))
HomeTasksSorted(tasks) ==
    LET home == SelectSeq(TaskIds(tasks), LAMBDA k : ~IsErrand(tasks[k]))
        keyed == [i \in 1..Len(home) |->
                    <<IF tasks[home[i]].due = NoDue THEN DateMax ELSE tasks[home[i]].due,
                      -tasks[home[i]].priority, home[i]>>]
        sorted == StableSort(keyed)
    IN [i \in 1..Len(home) |-> sorted[i][3]]

RECURSIVE PlaceHomeTasks(_, _, _, _, _, _, _)
\* generate_plan: "for task in home_tasks_sorted" from position i on; the schedule,
\* the overflow and the scheduled task ids it ends with.
PlaceHomeTasks(tasks, home, i, free_gaps, scheduled, overflow, ids) ==
    IF i > Len(home) THEN [scheduled |-> scheduled, overflow |-> overflow, ids |-> ids]
    ELSE LET k == home[i]
             task == tasks[k]
             fitting == {g \in 1..Len(free_gaps) : GapFits(free_gaps[g], task)}
         IN IF fitting = {}
            THEN PlaceHomeTasks(tasks, home, i + 1, free_gaps, scheduled,
                     IF k \notin ids
                     THEN Append(overflow, OverflowTask(k, "No free time slot available"))
                     ELSE overflow,
                     ids)
            ELSE LET g == SetMin(fitting)
                     gap == free_gaps[g]
                     task_start == gap.start
                     task_end == task_start + Minutes(task.duration_minutes)
                 IN PlaceHomeTasks(tasks, home, i + 1,
                        IF task_end < gap.end
                        THEN [free_gaps EXCEPT ![g].start = task_end]
                        ELSE RemoveFirst(free_gaps, gap),
                        Append(scheduled,
                               ScheduledItem("task", task_start, task_end, k, NoMinutes)),
                        overflow,
                        ids \cup {k})

\* A suggestion: its kind, the task it names (if any) and the minutes it quotes.
Suggestion(kind, task, minutes) == [kind |-> kind, task |-> task, minutes |-> minutes]

\* math.ceil(overtime_mins / 15) * 15, in minutes, for an overtime in ticks.
CeilToStep(overtime) ==
    ((overtime + Minutes(SHIFT_STEP_MIN) - 1) \div Minutes(SHIFT_STEP_MIN)) * SHIFT_STEP_MIN

\* list.index(x): the first position of x.
FirstIndex(s, x) == SetMin({j \in 1..Len(s) : s[j] = x})

\* generate_suggestions: the time saved by dropping the task of an item, in minutes.
TimeSaved(scheduled, tasks, item) ==
    LET idx == FirstIndex(scheduled, item)
    IN tasks[item.task].duration_minutes
         + (IF idx > 1 /\ scheduled[idx - 1].type = "travel"
            THEN OrZero(scheduled[idx - 1].travel_minutes) ELSE 0)
         + (IF idx < Len(scheduled) /\ scheduled[idx + 1].type = "travel"
            THEN OrZero(scheduled[idx + 1].travel_minutes) ELSE 0)

\* generate_suggestions: suggestions 1 and 2.
ShiftSuggestions(overtime) ==
    IF overtime <= Minutes(OVERTIME_SHIFT_MAX_MIN)
    THEN << Suggestion("Leave earlier", NoTask, CeilToStep(overtime)),
            Suggestion("Extend return-by time", NoTask, CeilToStep(overtime)) >>
    ELSE <<>>

\* s[:n]
Prefix(s, n) == SubSeq(s, 1, Min2(Len(s), n))

\* The whole list for its first entries.
NoLimit(s, n) == s

\* generate_suggestions: "return suggestions[:5]".
Limit(s, n) == Prefix(s, n)

\* generate_suggestions, for the sorted schedule and the overtime in ticks.
generate_suggestions(scheduled, tasks, overtime) ==
    LET scheduled_tasks ==
            SelectSeq(scheduled, LAMBDA item : item.type = "task" /\ item.task # NoTask)
        task_savings ==
            StableSort([i \in 1..Len(scheduled_tasks) |->
                LET item == scheduled_tasks[i]
                    time_saved == TimeSaved(scheduled, tasks, item)
                IN <<tasks[item.task].priority, -time_saved,
                     Suggestion("Drop", item.task, time_saved)>>])
        closing ==
            SelectSeq(task_savings,
                LAMBDA e : Minutes(e[3].minutes) * 100 >= overtime * DROP_SAVES_PERCENT)
        drops == [i \in 1..Len(closing) |-> closing[i][3]]
        long_tasks ==
            SelectSeq(scheduled_tasks,
                LAMBDA item : tasks[item.task].duration_minutes > LONG_TASK_MIN)
        reduce ==
            IF long_tasks # <<>>
            THEN << Suggestion("Reduce duration", NoTask, NoMinutes) >>
            ELSE <<>>
        long_travels ==
            SelectSeq([i \in 1..Len(scheduled) |-> i],
                LAMBDA i : /\ i > 1
                           /\ scheduled[i].type = "task"
                           /\ scheduled[i - 1].type = "travel"
                           /\ OrZero(scheduled[i - 1].travel_minutes) > LONG_TRAVEL_MIN)
        top == Prefix(long_travels, MAX_CLOSER)
        closer ==
            [i \in 1..Len(top) |->
                Suggestion("Choose closer location", scheduled[top[i]].task,
                           scheduled[top[i] - 1].travel_minutes)]
    IN Limit(ShiftSuggestions(overtime) \o drops \o reduce \o closer, MAX_SUGGESTIONS)

\* No PlanResult yet.
NoPlanResult == [fits_in_window |-> TRUE, schedule_end_time |-> NoTime,
                 overtime_minutes |-> 0, buffer_minutes |-> 0, suggestions |-> <<>>]

\* "schedule_end_time >= day_end" for "schedule_end_time > day_end".
AtOrPastDayEnd(t) == t >= DayEnd

\* generate_plan: "if schedule_end_time > day_end".
PastDayEnd(t) == t > DayEnd

\* generate_plan: the time window validation of the sorted schedule.
Validation(scheduled, tasks) ==
    LET schedule_end_time ==
            IF scheduled # <<>>
            THEN SetMax({scheduled[i].end : i \in 1..Len(scheduled)})
            ELSE NoTime
        over == schedule_end_time # NoTime /\ PastDayEnd(schedule_end_time)
        overtime == IF over THEN schedule_end_time - DayEnd ELSE 0
    IN [fits_in_window |-> ~over,
        schedule_end_time |-> schedule_end_time,
        overtime_minutes |-> overtime,
        buffer_minutes |-> IF schedule_end_time # NoTime /\ ~over
                           THEN DayEnd - schedule_end_time ELSE 0,
        suggestions |-> IF over THEN generate_suggestions(scheduled, tasks, overtime)
                        ELSE <<>>]

\* The numbers of tasks of the plan date.
TaskCounts == 0..2

\* The places (in steps from home), durations (minutes), priorities and opening
\* hours <<open, close>> of the tasks drawn: a place is open all day, opens 40
\* minutes into the day or 45 minutes before its end, or closes 40 minutes into it.
Locs == {1, 2}

Durations == {20, 45}

Priorities == {1, 2}

Hours == { <<NoTime, NoTime>>,
           <<Minutes(WorkStartMinute + 40), NoTime>>,
           <<Minutes(WorkEndMinute - 45), NoTime>>,
           <<NoTime, Minutes(WorkStartMinute + 40)>> }

\* Task
Task(loc, location_based, duration_minutes, priority, open, close) ==
    [loc |-> loc, location_based |-> location_based,
     duration_minutes |-> duration_minutes, priority |-> priority,
     open |-> open, close |-> close,
     earliest |-> NoTime, latest |-> NoTime, due |-> NoDue]

\* The errands drawn: tasks of an out-of-home category with coordinates.
ErrandChoices ==
    {Task(loc, TRUE, d, p, h[1], h[2]) :
        loc \in Locs, d \in Durations, p \in Priorities, h \in Hours}

\* The home tasks drawn: tasks without coordinates (and without opening hours).
HomeChoices ==
    {Task(NoLoc, TRUE, d, p, NoTime, NoTime) : d \in Durations, p \in Priorities}

TaskChoices == ErrandChoices \cup HomeChoices

\* The fixed blocks drawn: one across the start of the day, one within it, and
\* three from the same start to the end of the day, one minute and 80 minutes past it.
BlockChoices ==
    { [start |-> Minutes(WorkStartMinute - 10), end |-> Minutes(WorkStartMinute + 30)],
      [start |-> Minutes(WorkStartMinute + 30), end |-> Minutes(WorkStartMinute + 60)],
      [start |-> Minutes(WorkStartMinute + 60), end |-> Minutes(WorkEndMinute)],
      [start |-> Minutes(WorkStartMinute + 60), end |-> Minutes(WorkEndMinute + 1)],
      [start |-> Minutes(WorkStartMinute + 60), end |-> Minutes(WorkEndMinute + 80)] }

\* The sequences over S of length at most n.
SeqsUpTo(S, n) == UNION {[1..m -> S] : m \in 0..n}

\* A call of generate_plan for a date with some tasks and fixed blocks.
PlanInit ==
    /\ p_pc = "start"
    /\ p_tasks \in UNION {[1..n -> TaskChoices] : n \in TaskCounts}
    /\ p_blocks \in SeqsUpTo(BlockChoices, MaxBlocks)
    /\ Len(p_tasks) + Len(p_blocks) <= MaxEntries
    /\ p_ret \in BOOLEAN
    /\ p_scheduled = <<>>
    /\ p_overflow = <<>>
    /\ p_time = DayStart
    /\ p_pos = HomePos
    /\ p_done = {}
    /\ p_windows = <<>>
    /\ p_travel = 0
    /\ p_result = NoPlanResult

\* generate_plan up to the greedy loop: the fixed items, the state of the walk and
\* the feasible windows of the errands.  (errand_tasks comes from
\* get_location_based_tasks, which keeps no task without coordinates, so the
\* branch that gives "Missing location" as a reason is never taken.)
PlanSetup ==
    /\ UNCHANGED notPlanVars
    /\ p_pc = "start"
    /\ p_scheduled' = FixedItems(p_blocks)
    /\ p_windows' = [k \in 1..Len(p_tasks) |->
                        IF IsErrand(p_tasks[k]) /\ has_location(p_tasks[k])
                        THEN get_task_feasible_window(p_tasks[k], DayStart, DayEnd)
                        ELSE NoWindow]
    /\ LET rejected == SelectSeq(TaskIds(p_tasks),
                           LAMBDA k : IsErrand(p_tasks[k]) /\ p_windows'[k] = NoWindow)
       IN p_overflow' = [i \in 1..Len(rejected) |->
                            OverflowTask(rejected[i],
                                IF ~has_location(p_tasks[rejected[i]])
                                THEN "Missing location"
                                ELSE "No feasible time window")]
    /\ p_pc' = "greedy"
    /\ UNCHANGED <<p_tasks, p_blocks, p_ret, p_time, p_pos, p_done, p_travel, p_result>>

\* generate_plan: one iteration of "while True" that finds a best task: the travel
\* segment, the wait and the task are appended and the walk moves on.
GreedyPick ==
    /\ UNCHANGED notPlanVars
    /\ p_pc = "greedy"
    /\ LET best == GreedyScan(1, NoBest)
           task == p_tasks[best.task]
           window == p_windows[best.task]
           actual_start == Max2(best.arrival_time, window.start)
           task_end == actual_start + Minutes(task.duration_minutes)
           travel == IF best.travel_minutes > 0
                     THEN << ScheduledItem("travel", p_time, best.arrival_time, NoTask,
                                           IntMinutes(best.travel_minutes)) >>
                     ELSE <<>>
           wait == IF actual_start > best.arrival_time
                   THEN << ScheduledItem("break", best.arrival_time, actual_start,
                                         NoTask, NoMinutes) >>
                   ELSE <<>>
       IN /\ best.task # NoTask
          /\ p_scheduled' = p_scheduled \o travel \o wait
                              \o << ScheduledItem("task", actual_start, task_end,
                                                  best.task, NoMinutes) >>
          /\ p_travel' = p_travel + best.travel_minutes
          /\ p_time' = task_end
          /\ p_pos' = task.loc
          /\ p_done' = p_done \cup {best.task}
    /\ UNCHANGED <<p_pc, p_tasks, p_blocks, p_ret, p_overflow, p_windows, p_result>>

\* The test for the errands left that leaves out whether they were scheduled.
RemainingScheduledToo(k) == IsErrand(p_tasks[k]) /\ p_windows[k] # NoWindow

\* generate_plan: "task.id not in scheduled_task_ids and task.id in errand_windows",
\* for a task of errand_tasks.
Remaining(k) == IsErrand(p_tasks[k]) /\ k \notin p_done /\ p_windows[k] # NoWindow

\* generate_plan: the loop ends with no feasible errand; the errands left go to
\* overflow, and the return home is appended if asked for.
GreedyStop ==
    /\ UNCHANGED notPlanVars
    /\ p_pc = "greedy"
    /\ GreedyScan(1, NoBest).task = NoTask
    /\ LET left == SelectSeq(TaskIds(p_tasks), Remaining)
       IN p_overflow' = p_overflow \o
              [i \in 1..Len(left) |->
                  OverflowTask(left[i], "Insufficient time in schedule")]
    /\ IF p_ret /\ p_pos # HomePos /\ p_time < DayEnd
       THEN LET duration == route_duration(p_pos, HomePos)
                travel_end == p_time + duration
            IN /\ p_scheduled' = Append(p_scheduled,
                      ScheduledItem("travel", p_time, travel_end, NoTask,
                                    IntMinutes(duration)))
               /\ p_travel' = p_travel + duration
               /\ p_time' = travel_end
       ELSE UNCHANGED <<p_scheduled, p_travel, p_time>>
    /\ p_pc' = "backfill"
    /\ UNCHANGED <<p_tasks, p_blocks, p_ret, p_pos, p_done, p_windows, p_result>>

\* generate_plan: the home tasks are placed in the free gaps.
Backfill ==
    /\ UNCHANGED notPlanVars
    /\ p_pc = "backfill"
    /\ LET placed == PlaceHomeTasks(p_tasks, HomeTasksSorted(p_tasks), 1,
                         GapsOf(p_scheduled), p_scheduled, p_overflow, p_done)
       IN /\ p_scheduled' = placed.scheduled
          /\ p_overflow' = placed.overflow
          /\ p_done' = placed.ids
    /\ p_pc' = "finish"
    /\ UNCHANGED <<p_tasks, p_blocks, p_ret, p_time, p_pos, p_windows, p_travel, p_result>>

\* generate_plan: the items are sorted by start, the window is validated and the
\* PlanResult is returned.
Finish ==
    /\ UNCHANGED notPlanVars
    /\ p_pc = "finish"
    /\ p_scheduled' = SortByStart(p_scheduled)
    /\ p_result' = Validation(p_scheduled', p_tasks)
    /\ p_pc' = "done"
    /\ UNCHANGED <<p_tasks, p_blocks, p_ret, p_overflow, p_time, p_pos, p_done,
                   p_windows, p_travel>>

PlanNext == PlanSetup \/ GreedyPick \/ GreedyStop \/ Backfill \/ Finish

\* The errands drawn to try the feasible window: a place one step from home that
\* opens before or after the start of the day, or closes 54 or 55 minutes after
\* it or after its end, and a task that may start only 10 or 20 minutes into
\* the day, or must end 5 or 65 minutes into it.
WindowTaskChoices ==
    {[Task(1, TRUE, d, 1, open, close) EXCEPT !.earliest = earliest, !.latest = latest] :
        d \in Durations,
        open \in {NoTime, Minutes(WorkStartMinute - 10), Minutes(WorkStartMinute + 10)},
        close \in {NoTime, Minutes(WorkStartMinute + 54), Minutes(WorkStartMinute + 55),
                   Minutes(WorkEndMinute + 10)},
        earliest \in {NoTime, Minutes(WorkStartMinute + 10), Minutes(WorkStartMinute + 20)},
        latest \in {NoTime, Minutes(WorkStartMinute + 5), Minutes(WorkStartMinute + 65)}}

\* A call of generate_plan for a date with one such errand.
WindowInit ==
    /\ p_pc = "start"
    /\ p_tasks \in [1..1 -> WindowTaskChoices]
    /\ p_blocks = <<>>
    /\ p_ret \in BOOLEAN
    /\ p_scheduled = <<>>
    /\ p_overflow = <<>>
    /\ p_time = DayStart
    /\ p_pos = HomePos
    /\ p_done = {}
    /\ p_windows = <<>>
    /\ p_travel = 0
    /\ p_result = NoPlanResult

\* No call of the planner.
PlanOff ==
    /\ p_pc = "off" /\ p_tasks = <<>> /\ p_blocks = <<>> /\ p_ret = FALSE
    /\ p_scheduled = <<>> /\ p_overflow = <<>> /\ p_time = 0 /\ p_pos = 0
    /\ p_done = {} /\ p_windows = <<>> /\ p_travel = 0 /\ p_result = NoPlanResult

(***************************************************************************)
(*                            PLACE RESOLVER                               *)
(*                                                                         *)
(* A place found by a provider is described by what the resolver computes  *)
(* from it: the similarity of its name to the query (0..100), its brand    *)
(* (two names are of the same brand when their mutual similarity reaches   *)
(* the threshold) and its position, in whole miles on a line through home. *)
(* Scores are in tenths of a point.  ScoredCandidate objects live in a     *)
(* heap, and lists and ResolvedPlaces refer to them by their index, so     *)
(* that an assignment to a candidate shows wherever it is referred to.     *)
(***************************************************************************)

\* calculate_combined_score: max_distance, and the points for distance and name.
MAX_DISTANCE_MILES == 25

DISTANCE_POINTS == 50

\* config.OSM_EXPANDED_RADIUS_MILES
OSM_EXPANDED_RADIUS_MILES == 25

\* The thresholds of are_same_brand, apply_home_proximity_tiebreak and
\* should_auto_select.
SAME_BRAND_SIMILARITY == 70

ONLY_MATCH_SIMILARITY == 50

CLEAR_WINNER_GAP == 15

HIGH_SIMILARITY == 80

CLOSE_MILES == 10

\* resolve_place: the default of limit.
DEFAULT_LIMIT == 10

\* should_use_google_places and should_use_web_search: few results.
GOOGLE_FEW_RESULTS == 2

WEB_FEW_RESULTS == 2

\* The most results of a search of the primary geocoder, and the most calls of
\* select_candidate.
MaxOsm == 2

MaxSelects == 2

\* The position of the previous stop, when one is given.
PrevStop == 10

\* (settings.home_lat, settings.home_lon), in miles on the line.
HomeMiles == 0

\* None: for a candidate, a selection reason, an index, a validation, a stop.
NoCandidate == 0

NoReason == "none"

NoIndex == -1

NoValidation == [best_index |-> NoIndex, confidence |-> "none", present |-> FALSE]

NoPrev == [given |-> FALSE, nonzero |-> FALSE, pos |-> 0]

\* (prev_stop_lat, prev_stop_lon): a stop at pos; nonzero tells that neither of its
\* coordinates is 0.0.
PrevStopAt(pos, nonzero) == [given |-> TRUE, nonzero |-> nonzero, pos |-> pos]

\* The address of a place, by the country its text names.
HomeCountry == "united states"

\* PlaceSearchResult, with its address.
PlaceWithAddress(sim, brand, pos, address) ==
    [sim |-> sim, brand |-> brand, pos |-> pos, address |-> address]

\* PlaceSearchResult, of an address at home.
PlaceSearchResult(sim, brand, pos) == PlaceWithAddress(sim, brand, pos, HomeCountry)

\* The places the providers return: a close match and a farther branch of the same
\* brand, a weaker match of another name, and a poor match out of range.
PlaceChoices ==
    { PlaceSearchResult(90, 1, -1), PlaceSearchResult(80, 1, 8),
      PlaceSearchResult(60, 2, 3), PlaceSearchResult(40, 3, 30) }

\* calculate_distance_miles from home.
calculate_distance_miles(from, to) == Abs(from - to)

\* calculate_combined_score, in tenths of a point.
calculate_combined_score(distance_miles, name_similarity) ==
    (IF distance_miles >= MAX_DISTANCE_MILES THEN 0
     ELSE (DISTANCE_POINTS * 10 * (MAX_DISTANCE_MILES - distance_miles))
             \div MAX_DISTANCE_MILES)
      + (name_similarity * 10) \div 2

\* are_same_brand
are_same_brand(c1, c2) == c1.place.brand = c2.place.brand

\* ScoredCandidate, as score_candidates creates it.
ScoredCandidate(place) ==
    LET distance == calculate_distance_miles(HomeMiles, place.pos)
    IN [place |-> place,
        distance_miles |-> distance,
        name_similarity |-> place.sim,
        combined_score |-> calculate_combined_score(distance, place.sim),
        selection_reason |-> NoReason]

\* The values of a list of sortable entries.
Values(sorted) == [i \in 1..Len(sorted) |-> sorted[i][3]]

\* score_candidates: the heap of the candidates created, in the order of the
\* places, and the list of them sorted by combined score, highest first.
score_candidates(candidates) ==
    LET heap == [i \in 1..Len(candidates) |-> ScoredCandidate(candidates[i])]
    IN [heap |-> heap,
        list |-> Values(StableSort([i \in 1..Len(candidates) |->
                            <<-heap[i].combined_score, 0, i>>]))]

\* filter_osm_results: other_countries.
other_countries == {"ireland", "united kingdom", "canada", "mexico", "australia"}

\* any(country in address_lower for country in other_countries)
MentionsOtherCountry(candidate) == candidate.address \in other_countries

\* filter_osm_results: the places beyond max_distance_miles are dropped.  A place
\* whose address names another country is skipped when the same test, made a
\* second time on the same address, fails.
filter_osm_results(candidates, max_distance_miles) ==
    SelectSeq(candidates,
        LAMBDA c : /\ ~(calculate_distance_miles(HomeMiles, c.pos) > max_distance_miles)
                   /\ ~(MentionsOtherCountry(c) /\ ~MentionsOtherCountry(c)))

\* apply_home_proximity_tiebreak: the list reordered, and the heap after it.
apply_home_proximity_tiebreak(list, heap) ==
    IF Len(list) <= 1 THEN [list |-> list, heap |-> heap]
    ELSE LET top == list[1]
             Same(c) == /\ heap[c].name_similarity >= SAME_BRAND_SIMILARITY
                        /\ heap[top].name_similarity >= SAME_BRAND_SIMILARITY
                        /\ are_same_brand(heap[top], heap[c])
             same_brand == <<top>> \o SelectSeq(Tail(list), LAMBDA c : Same(c))
             others == SelectSeq(Tail(list), LAMBDA c : ~Same(c))
             sorted == Values(StableSort([i \in 1..Len(same_brand) |->
                           <<heap[same_brand[i]].distance_miles, 0, same_brand[i]>>]))
         IN [list |-> sorted \o others,
             heap |-> IF Len(same_brand) > 1
                      THEN [heap EXCEPT ![sorted[1]].selection_reason = "closest_to_home"]
                      ELSE heap]

\* select_best_for_route; prev is the previous stop or NoPrev.  The test
\* "prev_stop_lat and prev_stop_lon" fails for None and for a coordinate 0.0.
select_best_for_route(list, heap, prev, is_last_stop, return_home) ==
    IF Len(list) <= 1 \/ ~(is_last_stop /\ return_home /\ prev.given /\ prev.nonzero)
    THEN [list |-> list, heap |-> heap]
    ELSE LET top == list[1]
             Total(c) == calculate_distance_miles(prev.pos, heap[c].place.pos)
                           + calculate_distance_miles(heap[c].place.pos, HomeMiles)
             same_brand == SelectSeq(list,
                              LAMBDA c : /\ heap[c].name_similarity >= SAME_BRAND_SIMILARITY
                                         /\ are_same_brand(heap[top], heap[c]))
         IN IF Len(same_brand) > 1
            THEN LET best == Values(StableSort([i \in 1..Len(same_brand) |->
                                <<Total(same_brand[i]), 0, same_brand[i]>>]))[1]
                     closest == Values(StableSort([i \in 1..Len(list) |->
                                   <<heap[list[i]].distance_miles, 0, list[i]>>]))[1]
                     marked == IF heap[best] # heap[closest]
                               THEN [heap EXCEPT ![best].selection_reason = "best_for_route"]
                               ELSE heap
                 IN [list |-> <<best>> \o SelectSeq(list, LAMBDA c : marked[c] # marked[best]),
                     heap |-> marked]
            ELSE [list |-> list, heap |-> heap]

\* should_auto_select with the similarity of the second row compared strictly.
should_auto_select_above(list, heap) ==
    IF Len(list) = 0 THEN <<FALSE, "only_match">>
    ELSE IF Len(list) = 1
         THEN <<heap[list[1]].name_similarity >= ONLY_MATCH_SIMILARITY, "only_match">>
    ELSE LET top == heap[list[1]]
             second == heap[list[2]]
         IN IF top.combined_score - second.combined_score >= CLEAR_WINNER_GAP * 10
            THEN <<TRUE, "clear_winner">>
            ELSE IF top.name_similarity > HIGH_SIMILARITY /\ top.distance_miles <= CLOSE_MILES
            THEN <<TRUE, "best_overall_score">>
            ELSE IF /\ top.name_similarity >= SAME_BRAND_SIMILARITY
                    /\ second.name_similarity >= SAME_BRAND_SIMILARITY
                    /\ are_same_brand(top, second)
                    /\ top.distance_miles < second.distance_miles
            THEN <<TRUE, "closest_to_home">>
            ELSE <<FALSE, "best_overall_score">>

\* should_auto_select: <<should_auto, reason>>.
should_auto_select(list, heap) ==
    IF Len(list) = 0 THEN <<FALSE, "only_match">>
    ELSE IF Len(list) = 1
         THEN <<heap[list[1]].name_similarity >= ONLY_MATCH_SIMILARITY, "only_match">>
    ELSE LET top == heap[list[1]]
             second == heap[list[2]]
         IN IF top.combined_score - second.combined_score >= CLEAR_WINNER_GAP * 10
            THEN <<TRUE, "clear_winner">>
            ELSE IF top.name_similarity >= HIGH_SIMILARITY /\ top.distance_miles <= CLOSE_MILES
            THEN <<TRUE, "best_overall_score">>
            ELSE IF /\ top.name_similarity >= SAME_BRAND_SIMILARITY
                    /\ second.name_similarity >= SAME_BRAND_SIMILARITY
                    /\ are_same_brand(top, second)
                    /\ top.distance_miles < second.distance_miles
            THEN <<TRUE, "closest_to_home">>
            ELSE <<FALSE, "best_overall_score">>

\* ScoredCandidate.get_reason_text
get_reason_text(selection_reason) ==
    CASE selection_reason = "closest_to_home" -> "Closest to home"
      [] selection_reason = "best_overall_score" -> "Best overall match"
      [] selection_reason = "clear_winner" -> "Clear best match"
      [] selection_reason = "only_match" -> "Only match found"
      [] selection_reason = "user_selected" -> "User selected"
      [] selection_reason = "best_for_route" -> "Best for route (min total distance)"
      [] OTHER -> "Auto-selected"

\* ResolvedPlace
ResolvedPlace(selected, candidates, decision, decision_reason) ==
    [selected |-> selected, candidates |-> candidates, decision |-> decision,
     decision_reason |-> decision_reason]

\* ResolvedPlace.is_resolved
is_resolved(resolved) == resolved.decision \in {"auto_best", "user_selected"}

\* ResolvedPlace.needs_disambiguation
needs_disambiguation(resolved) == resolved.decision = "pending"

\* should_use_google_places: few results, or the query looks like a retail chain
\* or the first result like a street (pattern).
should_use_google_places(pattern, osm_results) ==
    Len(osm_results) <= GOOGLE_FEW_RESULTS \/ pattern

\* should_use_web_search
should_use_web_search(osm_results, llm_validation) ==
    \/ osm_results = <<>>
    \/ /\ llm_validation.present
       /\ llm_validation.best_index = NoIndex
       /\ llm_validation.confidence \in {"low", "none"}
    \/ Len(osm_results) < WEB_FEW_RESULTS

\* What validate_and_rank_candidates may return for n candidates: None, or a
\* best_index that is null or valid, with a confidence or without.
Validations(n) ==
    {NoValidation} \cup
    [best_index : {NoIndex} \cup 0..(n - 1), confidence : {"high", "medium", "low", "none"},
     present : {TRUE}]

\* candidates.pop(best_idx) and candidates.insert(0, best_candidate)
MoveToFront(candidates, best_idx) ==
    <<candidates[best_idx + 1]>>
      \o SubSeq(candidates, 1, best_idx) \o SubSeq(candidates, best_idx + 2, Len(candidates))

\* The range test with the upper end let in.
InRangeUpTo(index, n) == ~(index < 0 \/ index > n)

\* The range test without its lower end.
InRangeAbove(index, n) == ~(index >= n)

\* select_candidate: the negation of "candidate_index < 0 or candidate_index >= len".
InRange(index, n) == ~(index < 0 \/ index >= n)

\* list[index], 0-based; no candidate where the list has none.
At(list, index) == IF index + 1 \in DOMAIN list THEN list[index + 1] ELSE NoCandidate

\* The lists of places a search of the primary geocoder returns.
OsmLists == SeqsUpTo(PlaceChoices, MaxOsm)

\* A place or None, as geocode_address, search_place_with_google and
\* search_place_with_tavily return.
NoPlace == PlaceSearchResult(0, 0, HomeMiles)

PlaceOrNone == PlaceChoices \cup {NoPlace}

\* What a request of a provider comes to: it fails (no connection, a timeout, an
\* error status), or it is answered with the places found.
SearchResponses ==
    {[failed |-> TRUE, results |-> <<>>]} \cup [failed : {FALSE}, results : OsmLists]

LookupResponses ==
    {[failed |-> TRUE, place |-> NoPlace]} \cup [failed : {FALSE}, place : PlaceOrNone]

\* The responses there can be, given the state of the network.
Possible(responses, outage) == {response \in responses : outage => response.failed}

\* places.search_places_nearby: a failed request gives the empty list.
search_places_nearby(response) == IF response.failed THEN <<>> ELSE response.results

\* places.geocode_address, search_place_with_google and search_place_with_tavily:
\* a failed request gives None.
geocode_address(response) == IF response.failed THEN NoPlace ELSE response.place

search_place_with_google(response) == IF response.failed THEN NoPlace ELSE response.place

search_place_with_tavily(response) == IF response.failed THEN NoPlace ELSE response.place

\* validate_and_rank_candidates: a failed request gives a validation without an
\* index and without a confidence.
validate_and_rank_candidates(failed, validation) ==
    IF failed THEN [best_index |-> NoIndex, confidence |-> "none", present |-> TRUE]
    ELSE validation

\* The test for no candidates that also takes a single candidate for none.
not_candidates_or_one(candidates) == Len(candidates) <= 1

\* resolve_place: "if not candidates".
not_candidates(candidates) == candidates = <<>>

\* A call select_candidate(resolved, candidate_index) and the object it returned;
\* resolved and returned are positions in r_places.
SelectCall(resolved, candidate_index, returned) ==
    [resolved |-> resolved, candidate_index |-> candidate_index, returned |-> returned]

\* No call of select_candidate so far.
NoSelectCall == SelectCall(0, 0, 0)

\* list.insert(index, result) that overwrites the element at the index.
insert_over(list, index, result) ==
    SubSeq(list, 1, index) \o <<result>> \o SubSeq(list, index + 2, Len(list))

\* list.insert(index, result) for an index from 0 to len(list).
insert(list, index, result) ==
    SubSeq(list, 1, index) \o <<result>> \o SubSeq(list, index + 1, Len(list))

\* A request resolve_place made of a provider, and how many places it found.
Asked(provider, found) == [provider |-> provider, found |-> found]

\* The previous stops a caller passes: none, a stop, and a stop on the equator or
\* on the prime meridian.
PrevStops == {NoPrev, PrevStopAt(PrevStop, TRUE), PrevStopAt(PrevStop, FALSE)}

\* The values of limit drawn.
Limits == {0, 1, DEFAULT_LIMIT}

\* A call of resolve_place: whether the optional services were imported, whether
\* home is set and whether city and state could be read from the home address.
ResInit ==
    /\ r_pc = "tier1"
    /\ r_env \in [gemini : BOOLEAN, google : BOOLEAN, tavily : BOOLEAN]
    /\ r_home \in BOOLEAN
    /\ r_outage \in BOOLEAN
    /\ r_ctx \in (IF r_env.gemini THEN BOOLEAN ELSE {FALSE})
    /\ r_cands = <<>>
    /\ r_llm = NoValidation
    /\ r_heap = <<>>
    /\ r_places = <<>>
    /\ r_selects = 0
    /\ r_asked = <<>>
    /\ r_call = NoSelectCall

\* resolve_place returns at once when home is not set.
HomeNotSet ==
    /\ UNCHANGED notResVars
    /\ r_pc = "tier1"
    /\ ~r_home
    /\ r_places' = << ResolvedPlace(NoCandidate, <<>>, "no_match", "Home location not set") >>
    /\ r_pc' = "done"
    /\ UNCHANGED <<r_env, r_home, r_outage, r_ctx, r_cands, r_llm, r_heap, r_selects, r_asked, r_call>>

\* resolve_place, tier 1: the search nearby, the search with the expanded radius if
\* that found nothing, the geocoding of the query if that found nothing, the filter.
Tier1 ==
    /\ UNCHANGED notResVars
    /\ r_pc = "tier1"
    /\ r_home
    /\ \E near \in Possible(SearchResponses, r_outage) :
          LET nearby == search_places_nearby(near)
          IN IF nearby # <<>>
             THEN /\ r_cands' = filter_osm_results(nearby, OSM_EXPANDED_RADIUS_MILES)
                  /\ r_asked' = <<Asked("nearby", Len(nearby))>>
             ELSE \E wide \in Possible(SearchResponses, r_outage) :
                  LET expanded == search_places_nearby(wide)
                  IN IF expanded # <<>>
                     THEN /\ r_cands' = filter_osm_results(expanded, OSM_EXPANDED_RADIUS_MILES)
                          /\ r_asked' = <<Asked("nearby", 0), Asked("expanded", Len(expanded))>>
                     ELSE \E geocoded \in Possible(LookupResponses, r_outage) :
                          LET result == geocode_address(geocoded)
                          IN /\ r_cands' = filter_osm_results(
                                    IF result # NoPlace THEN <<result>> ELSE <<>>,
                                    OSM_EXPANDED_RADIUS_MILES)
                             /\ r_asked' = <<Asked("nearby", 0), Asked("expanded", 0),
                                             Asked("geocode", IF result # NoPlace THEN 1 ELSE 0)>>
    /\ r_pc' = "tier2"
    /\ UNCHANGED <<r_env, r_home, r_outage, r_ctx, r_llm, r_heap, r_places, r_selects, r_call>>

\* resolve_place, tier 2: the result of Google Places goes to the top of the list.
Tier2 ==
    /\ UNCHANGED notResVars
    /\ r_pc = "tier2"
    /\ \E pattern \in BOOLEAN :
          IF r_env.google /\ should_use_google_places(pattern, r_cands)
          THEN \E response \in Possible(LookupResponses, r_outage) :
                  LET google_result == search_place_with_google(response)
                  IN /\ r_cands' = IF google_result # NoPlace
                                   THEN insert(r_cands, 0, google_result) ELSE r_cands
                     /\ r_asked' = Append(r_asked,
                                       Asked("google", IF google_result # NoPlace THEN 1 ELSE 0))
          ELSE UNCHANGED <<r_cands, r_asked>>
    /\ r_pc' = "tier3"
    /\ UNCHANGED <<r_env, r_home, r_outage, r_ctx, r_llm, r_heap, r_places, r_selects, r_call>>

\* resolve_place, tier 3: the validation by the LLM; its pick goes to the top.
Tier3 ==
    /\ UNCHANGED notResVars
    /\ r_pc = "tier3"
    /\ IF r_env.gemini /\ r_cands # <<>> /\ r_ctx
       THEN \E failed \in {r_outage, TRUE}, validation \in Validations(Len(r_cands)) :
            LET llm_validation == validate_and_rank_candidates(failed, validation)
                valid == /\ llm_validation.present
                         /\ llm_validation.best_index # NoIndex
                         /\ 0 <= llm_validation.best_index
                         /\ llm_validation.best_index < Len(r_cands)
            IN /\ r_llm' = llm_validation
               /\ r_cands' = IF valid THEN MoveToFront(r_cands, llm_validation.best_index)
                             ELSE r_cands
               /\ r_asked' = Append(r_asked, Asked("gemini", IF valid THEN 1 ELSE 0))
       ELSE UNCHANGED <<r_llm, r_cands, r_asked>>
    /\ r_pc' = "tier4"
    /\ UNCHANGED <<r_env, r_home, r_outage, r_ctx, r_heap, r_places, r_selects, r_call>>

\* resolve_place, tier 4: the result of the web search goes to the top of the list.
Tier4 ==
    /\ UNCHANGED notResVars
    /\ r_pc = "tier4"
    /\ IF r_env.gemini /\ r_env.tavily /\ should_use_web_search(r_cands, r_llm) /\ r_ctx
       THEN \E response \in Possible(LookupResponses, r_outage) :
               LET tavily_result == search_place_with_tavily(response)
               IN /\ r_cands' = IF tavily_result # NoPlace
                                THEN insert(r_cands, 0, tavily_result) ELSE r_cands
                  /\ r_asked' = Append(r_asked,
                                    Asked("tavily", IF tavily_result # NoPlace THEN 1 ELSE 0))
       ELSE UNCHANGED <<r_cands, r_asked>>
    /\ r_pc' = "decide"
    /\ UNCHANGED <<r_env, r_home, r_outage, r_ctx, r_llm, r_heap, r_places, r_selects, r_call>>

\* resolve_place from "if not candidates" on: no match, or the candidates are
\* scored, reordered and cut to the limit, and the top one is selected or the
\* choice is left to the user.  Of the decision reason of an automatic selection
\* the reason text is kept; the distance and the LLM's reasoning around it are not.
Decide ==
    /\ UNCHANGED notResVars
    /\ r_pc = "decide"
    /\ IF not_candidates(r_cands)
       THEN /\ r_places' = << ResolvedPlace(NoCandidate, <<>>, "no_match", "No places found") >>
            /\ UNCHANGED r_heap
       ELSE \E limit \in Limits, last_and_return \in BOOLEAN, prev \in PrevStops :
               \E scored \in {score_candidates(r_cands)} :
               \E tied \in {apply_home_proximity_tiebreak(scored.list, scored.heap)} :
               \E routed \in {IF last_and_return
                               THEN select_best_for_route(tied.list, tied.heap, prev, TRUE, TRUE)
                               ELSE tied} :
               \E list \in {Prefix(routed.list, limit)} :
               \E auto \in {should_auto_select(list, routed.heap)} :
               LET high == r_llm.present /\ r_llm.confidence = "high" /\ list # <<>>
                   should_auto == auto[1] \/ high
                   reason == IF high THEN "best_overall_score" ELSE auto[2]
                   top == list[1]
               IN IF should_auto
                  THEN /\ r_heap' = IF routed.heap[top].selection_reason = NoReason
                                    THEN [routed.heap EXCEPT ![top].selection_reason = reason]
                                    ELSE routed.heap
                       /\ r_places' = << ResolvedPlace(top, list, "auto_best",
                                            get_reason_text(r_heap'[top].selection_reason)) >>
                  ELSE /\ r_heap' = routed.heap
                       /\ r_places' = << ResolvedPlace(NoCandidate, list, "pending",
                                            "Multiple matches found - please select") >>
    /\ r_asked' = <<>>
    /\ r_pc' = "done"
    /\ UNCHANGED <<r_env, r_home, r_outage, r_ctx, r_cands, r_llm, r_selects, r_call>>

\* select_candidate(resolved, candidate_index) for a ResolvedPlace returned so far:
\* out of range it returns resolved itself; otherwise the candidate's reason is
\* overwritten and a new ResolvedPlace with the same candidates is returned.
SelectCandidate ==
    /\ UNCHANGED notResVars
    /\ r_pc = "done"
    /\ r_selects < MaxSelects
    /\ r_selects' = r_selects + 1
    /\ \E k \in 1..Len(r_places) :
       \E candidate_index \in -1..(Len(r_places[k].candidates) + 1) :
          LET resolved == r_places[k]
              selected == At(resolved.candidates, candidate_index)
          IN IF ~InRange(candidate_index, Len(resolved.candidates))
             THEN /\ UNCHANGED <<r_places, r_heap>>
                  /\ r_call' = SelectCall(k, candidate_index, k)
             ELSE /\ r_heap' = IF selected \in DOMAIN r_heap
                               THEN [r_heap EXCEPT ![selected].selection_reason = "user_selected"]
                               ELSE r_heap
                  /\ r_places' = Append(r_places,
                        ResolvedPlace(selected, resolved.candidates, "user_selected",
                                      "User selected"))
                  /\ r_call' = SelectCall(k, candidate_index, Len(r_places) + 1)
    /\ UNCHANGED <<r_pc, r_env, r_home, r_outage, r_ctx, r_cands, r_llm, r_asked>>

ResNext == HomeNotSet \/ Tier1 \/ Tier2 \/ Tier3 \/ Tier4 \/ Decide \/ SelectCandidate

\* No call of the resolver.
ResOff ==
    /\ r_pc = "off" /\ r_env = <<>> /\ r_home = FALSE /\ r_outage = FALSE /\ r_ctx = FALSE /\ r_cands = <<>>
    /\ r_llm = NoValidation /\ r_heap = <<>> /\ r_places = <<>> /\ r_selects = 0
    /\ r_asked = <<>> /\ r_call = NoSelectCall

(***************************************************************************)
(*                     THE RANKING, FUNCTION BY FUNCTION                   *)
(*                                                                         *)
(* resolve_place ranks the places found by score_candidates,               *)
(* apply_home_proximity_tiebreak, select_best_for_route, the cut to limit  *)
(* and should_auto_select.  Here each function is applied as one step to   *)
(* what the one before returned, and its argument and result are kept.     *)
(***************************************************************************)

\* The most places ranked.
MaxRanked == 3

\* The places ranked: a close match; branches of its brand at the thresholds of
\* similarity and distance; a weaker match of another name; a poor match far away.
RankPlaces ==
    { PlaceSearchResult(90, 1, -1), PlaceSearchResult(80, 1, 10),
      PlaceSearchResult(90, 1, 13), PlaceSearchResult(70, 1, 15),
      PlaceSearchResult(50, 2, 3), PlaceSearchResult(40, 3, 30) }

\* A list of candidates and the candidate objects.
Ranking(list, heap) == [list |-> list, heap |-> heap]

NoRanking == Ranking(<<>>, <<>>)

NoAuto == <<FALSE, NoReason>>

RankInit ==
    /\ k_pc = "score"
    /\ k_places \in SeqsUpTo(RankPlaces, MaxRanked)
    /\ k_route \in [prev : PrevStops, is_last_stop : BOOLEAN, return_home : BOOLEAN]
    /\ k_limit \in Limits
    /\ k_in = NoRanking
    /\ k_out = NoRanking
    /\ k_auto = NoAuto

\* scored = score_candidates(query, candidates, home_lat, home_lon)
RankScore ==
    /\ UNCHANGED notRankVars
    /\ k_pc = "score"
    /\ k_in' = NoRanking
    /\ k_out' = score_candidates(k_places)
    /\ k_pc' = "tiebreak"
    /\ UNCHANGED <<k_places, k_route, k_limit, k_auto>>

\* scored = apply_home_proximity_tiebreak(scored)
RankTieBreak ==
    /\ UNCHANGED notRankVars
    /\ k_pc = "tiebreak"
    /\ k_in' = k_out
    /\ k_out' = apply_home_proximity_tiebreak(k_out.list, k_out.heap)
    /\ k_pc' = "route"
    /\ UNCHANGED <<k_places, k_route, k_limit, k_auto>>

\* scored = select_best_for_route(scored, prev_stop_lat, prev_stop_lon, ...)
RankRoute ==
    /\ UNCHANGED notRankVars
    /\ k_pc = "route"
    /\ k_in' = k_out
    /\ k_out' = select_best_for_route(k_out.list, k_out.heap, k_route.prev,
                                      k_route.is_last_stop, k_route.return_home)
    /\ k_pc' = "auto"
    /\ UNCHANGED <<k_places, k_route, k_limit, k_auto>>

\* scored = scored[:limit]; should_auto, reason = should_auto_select(scored)
RankAutoSelect ==
    /\ UNCHANGED notRankVars
    /\ k_pc = "auto"
    /\ k_in' = Ranking(Prefix(k_out.list, k_limit), k_out.heap)
    /\ k_out' = k_in'
    /\ k_auto' = should_auto_select(k_in'.list, k_in'.heap)
    /\ k_pc' = "done"
    /\ UNCHANGED <<k_places, k_route, k_limit>>

RankNext == RankScore \/ RankTieBreak \/ RankRoute \/ RankAutoSelect

\* No ranking.
RankOff ==
    /\ k_pc = "off" /\ k_places = <<>> /\ k_limit = 0
    /\ k_route = [prev |-> NoPrev, is_last_stop |-> FALSE, return_home |-> FALSE]
    /\ k_in = NoRanking /\ k_out = NoRanking /\ k_auto = NoAuto


(***************************************************************************)
(*                               ROUTING                                   *)
(*                                                                         *)
(* get_route between two places of the meridian.  Distances are in metres, *)
(* durations in tenths of a minute.  The primary service answers a request *)
(* with one of the responses below; the cache holds what get_route stored. *)
(***************************************************************************)

\* config.DEFAULT_CITY_SPEED_KMH
DEFAULT_CITY_SPEED_KMH == 40

\* get_route_fallback: straight_distance * 1.4, as tenths.
ROAD_FACTOR_TENTHS == 14

\* The most calls of get_route.
MaxRouteCalls == 2

\* None, for a RouteResult and for a number of a response.
NoRoute == [source |-> "none"]

NoNumber == -1

\* The places routes are asked between.
RoutePlaces == {0, 1}

\* RouteResult
RouteResult(origin, dest, distance_km, duration_minutes, source) ==
    [origin |-> origin, dest |-> dest, distance_km |-> distance_km,
     duration_minutes |-> duration_minutes, source |-> source]

\* round(minutes, 1) of num / den minutes, in tenths of a minute.
round1(num, den) == (2 * 10 * num + den) \div (2 * den)

\* What the request to the primary service may come to: an exception of requests
\* (no connection, timeout, raise_for_status on an error status), a body that is
\* not JSON, a JSON body that is not an object, an object whose code is not "Ok"
\* or that has no routes, and a first route with or without its distance (in
\* metres) and its duration (in seconds).
PrimaryResponses ==
    {[kind |-> k, distance |-> NoNumber, duration |-> NoNumber] :
        k \in {"connection_error", "timeout", "http_error", "not_json", "not_object",
               "code_not_ok", "no_routes"}}
    \cup [kind : {"route"}, distance : {NoNumber, 1600}, duration : {NoNumber, 160}]

\* The outcome of a function call: a value returned or an exception raised.
Returned(value) == [value |-> value, raised |-> "none"]

Raised(exception) == [value |-> NoRoute, raised |-> exception]

\* get_route_osrm.  The exception of response.json() on a body that is not JSON is
\* a RequestException in some versions of requests and a plain ValueError in
\* others (json_is_request_exception).
get_route_osrm(origin, dest, response, json_is_request_exception) ==
    IF response.kind \in {"connection_error", "timeout", "http_error"}
    THEN Returned(NoRoute)
    ELSE IF response.kind = "not_json"
    THEN IF json_is_request_exception THEN Returned(NoRoute) ELSE Raised("ValueError")
    ELSE IF response.kind = "not_object" THEN Raised("AttributeError")
    ELSE IF response.kind \in {"code_not_ok", "no_routes"} THEN Returned(NoRoute)
    ELSE IF response.distance = NoNumber \/ response.duration = NoNumber
    THEN Raised("KeyError")
    ELSE Returned(RouteResult(origin, dest, round2(response.distance),
                              round1(response.duration, 60), "osrm"))

\* get_route_fallback
get_route_fallback(origin, dest) ==
    LET straight_distance == haversine_distance(origin, dest)
        \* road_distance in tenths of a metre
        road_distance == straight_distance * ROAD_FACTOR_TENTHS
    IN RouteResult(origin, dest,
                   ((road_distance + 50) \div 100) * 10,
                   round1(road_distance * 60, DEFAULT_CITY_SPEED_KMH * 10000),
                   "fallback")

\* get_route that stores what the primary service gave only.
get_route_primary_stored(cache, origin, dest, use_cache, live, response, json_is_exception) ==
    IF use_cache /\ live /\ cache[<<origin, dest>>] # NoRoute
    THEN [outcome |-> Returned(cache[<<origin, dest>>]), cache |-> cache]
    ELSE LET primary == get_route_osrm(origin, dest, response, json_is_exception)
         IN IF primary.raised # "none"
            THEN [outcome |-> primary, cache |-> cache]
            ELSE IF primary.value = NoRoute
            THEN [outcome |-> Returned(get_route_fallback(origin, dest)), cache |-> cache]
            ELSE [outcome |-> primary,
                  cache |-> IF use_cache
                            THEN [cache EXCEPT ![<<origin, dest>>] = primary.value]
                            ELSE cache]

\* get_route: the outcome of the call and the cache after it.  live tells whether
\* an entry of the cache has not expired.
get_route(cache, origin, dest, use_cache, live, response, json_is_request_exception) ==
    IF use_cache /\ live /\ cache[<<origin, dest>>] # NoRoute
    THEN [outcome |-> Returned(cache[<<origin, dest>>]), cache |-> cache]
    ELSE LET primary == get_route_osrm(origin, dest, response, json_is_request_exception)
             result == IF primary.value = NoRoute
                       THEN get_route_fallback(origin, dest)
                       ELSE primary.value
         IN IF primary.raised # "none"
            THEN [outcome |-> primary, cache |-> cache]
            ELSE [outcome |-> Returned(result),
                  cache |-> IF use_cache
                            THEN [cache EXCEPT ![<<origin, dest>>] = result]
                            ELSE cache]

\* No call yet.
NoCall == [origin |-> 0, dest |-> 0, use_cache |-> FALSE, hit |-> FALSE,
           response |-> [kind |-> "none", distance |-> NoNumber, duration |-> NoNumber],
           outcome |-> Returned(NoRoute)]

RouteInit ==
    /\ rt_cache = [pair \in RoutePlaces \X RoutePlaces |-> NoRoute]
    /\ rt_call = NoCall
    /\ rt_calls = 0

\* The call record of a call of get_route.
RouteCall(origin, dest, use_cache, live, response, done) ==
    [origin |-> origin, dest |-> dest, use_cache |-> use_cache,
     hit |-> use_cache /\ live /\ rt_cache[<<origin, dest>>] # NoRoute,
     response |-> response, outcome |-> done.outcome]

\* A call of get_route answered from the cache.
GetRouteCached ==
    /\ UNCHANGED notRouteVars
    /\ rt_calls < MaxRouteCalls
    /\ rt_calls' = rt_calls + 1
    /\ \E origin \in RoutePlaces, dest \in RoutePlaces :
          /\ rt_cache[<<origin, dest>>] # NoRoute
          /\ LET done == get_route(rt_cache, origin, dest, TRUE, TRUE, NoCall.response, TRUE)
             IN /\ rt_call' = RouteCall(origin, dest, TRUE, TRUE, NoCall.response, done)
                /\ rt_cache' = done.cache

\* A call of get_route that asks the primary service: with the cache not used,
\* or with no entry or an expired one.
GetRouteAsked ==
    /\ UNCHANGED notRouteVars
    /\ rt_calls < MaxRouteCalls
    /\ rt_calls' = rt_calls + 1
    /\ \E origin \in RoutePlaces, dest \in RoutePlaces, use_cache \in BOOLEAN,
          live \in BOOLEAN, response \in PrimaryResponses,
          json_is_request_exception \in BOOLEAN :
          /\ ~(use_cache /\ live /\ rt_cache[<<origin, dest>>] # NoRoute)
          /\ rt_cache[<<origin, dest>>] = NoRoute => live
          /\ response.kind # "not_json" => json_is_request_exception
          /\ LET done == get_route(rt_cache, origin, dest, use_cache, live, response,
                                   json_is_request_exception)
             IN /\ rt_call' = RouteCall(origin, dest, use_cache, live, response, done)
                /\ rt_cache' = done.cache

RouteNext == GetRouteCached \/ GetRouteAsked

\* No call of get_route.
RouteOff == rt_cache = <<>> /\ rt_call = NoCall /\ rt_calls = 0

(***************************************************************************)
(*                             APP PIPELINE                                *)
(*                                                                         *)
(* app.generate_plan: the stops of the resolved errands are optimized, one *)
(* task per stop is saved in the optimized order, and the day scheduler    *)
(* plans the day.  The start of the route is home, at HomePos, and a stop  *)
(* at coordinate c is the place c of the scheduler.                        *)
(***************************************************************************)

\* app.generate_plan: the priority of the first task created, and the duration of
\* every task.
APP_TOP_PRIORITY == 100

APP_TASK_DURATION == 30

\* optimizer.reorder_items
reorder_items(items, order) ==
    IF order = <<>> \/ Len(order) # Len(items) THEN items
    ELSE [i \in 1..Len(order) |-> items[order[i] + 1]]

\* app.generate_plan: the tasks created for the stops in optimized order.  (They
\* are read back ordered by priority, highest first, which is this order.)
CreatedTasks(optimized) ==
    [priority_idx \in 1..Len(optimized) |->
        Task(optimized[priority_idx], TRUE, APP_TASK_DURATION,
             APP_TOP_PRIORITY - (priority_idx - 1), NoTime, NoTime)]

\* app.generate_plan is called with at least one resolved errand.
PipelineInit ==
    /\ o_pc = "call"
    /\ o_entry = "optimize_route"
    /\ o_start = HomePos
    /\ o_ret = TRUE
    /\ o_stops \in OptStopLists \ {<<>>}
    /\ o_order = <<>>
    /\ o_visited = {}
    /\ o_cur = 0
    /\ o_best = 0
    /\ o_improved = FALSE
    /\ o_iter = 0
    /\ o_max = MAX_ITERATIONS
    /\ o_result = NoResult
    /\ p_pc = "wait" /\ p_tasks = <<>> /\ p_blocks = <<>> /\ p_ret = FALSE
    /\ p_scheduled = <<>> /\ p_overflow = <<>> /\ p_time = 0 /\ p_pos = 0
    /\ p_done = {} /\ p_windows = <<>> /\ p_travel = 0 /\ p_result = NoPlanResult

\* app.generate_plan from the return of optimize_route to the call of
\* planner.generate_plan: the errands are reordered and saved as tasks; the date
\* may have a fixed block.
CreateTasks ==
    /\ UNCHANGED <<optVars, gateVars, resVars, routeVars, rankVars, cacheVars, filterVars>>
    /\ o_pc = "done"
    /\ p_pc = "wait"
    /\ p_tasks' = CreatedTasks(reorder_items(o_stops, o_result.stop_order))
    /\ p_blocks' \in SeqsUpTo(BlockChoices, 1)
    /\ p_ret' = TRUE
    /\ p_time' = DayStart
    /\ p_pos' = HomePos
    /\ p_pc' = "start"
    /\ UNCHANGED <<p_scheduled, p_overflow, p_done, p_windows, p_travel, p_result>>

PipelineNext ==
    \/ OptCall \/ NNStep \/ TwoOptStart \/ TwoOptIter \/ TwoOptReturn
    \/ CreateTasks
    \/ PlanSetup \/ GreedyPick \/ GreedyStop \/ Backfill \/ Finish

(***************************************************************************)
(*                          THE CACHE TABLE                                *)
(*                                                                         *)
(* db.get_cache and db.set_cache under routing.get_route.  The clock is in *)
(* ticks, a whole number of them to the day; a timestamp is stored and     *)
(* compared as the text isoformat() makes of it.  A value is stored as the *)
(* text model_dump_json makes of a RouteResult.                            *)
(***************************************************************************)

\* config.CACHE_TTL_DAYS
CACHE_TTL_DAYS == 7

\* Ticks of the clock to the day, the last day of the clock, and the most
\* operations on the cache.
CacheTicksPerDay == 2

MaxCacheDays == 8

MaxCacheCalls == 3

\* The keys: _get_route_cache_key of the pair of places routes are asked between.
CachePairs == {<<0, 1>>}

\* datetime.isoformat(): the whole part, and the fraction unless it is zero (the
\* microseconds are left out of the text when there are none).
isoformat(t) ==
    <<t \div CacheTicksPerDay>>
       \o (IF t % CacheTicksPerDay = 0 THEN <<>> ELSE <<t % CacheTicksPerDay>>)

\* a > b decided by the places both texts have only.
TextGreaterInCommon(a, b) ==
    \E i \in 1..Len(a) :
        /\ i <= Len(b)
        /\ \A j \in 1..(i - 1) : a[j] = b[j]
        /\ a[i] > b[i]

\* a > b for two texts, as SQLite compares TEXT: the first place that differs
\* decides, and a text is less than every longer text it begins.
TextGreater(a, b) ==
    \E i \in 1..Len(a) :
        /\ \A j \in 1..(i - 1) : j <= Len(b) /\ a[j] = b[j]
        /\ i > Len(b) \/ a[i] > b[i]

\* now + timedelta(days=ttl_days)
timedelta_days(days) == days * CacheTicksPerDay

\* model_dump_json of a RouteResult, and RouteResult(**json.loads(text)).
model_dump_json(result) ==
    << <<"origin", result.origin>>, <<"dest", result.dest>>,
       <<"distance_km", result.distance_km>>,
       <<"duration_minutes", result.duration_minutes>>, <<"source", result.source>> >>

json_loads(text) == RouteResult(text[1][2], text[2][2], text[3][2], text[4][2], text[5][2])

\* A row of the cache table, and no row.
CacheRow(value, created_at, expires_at) ==
    [present |-> TRUE, value |-> value, created_at |-> created_at,
     expires_at |-> expires_at]

NoRow == [present |-> FALSE, value |-> <<>>, created_at |-> <<>>, expires_at |-> <<>>]

\* db.get_cache: SELECT value FROM cache WHERE key = ? AND expires_at > now; the
\* value of the row, or no text for None.
get_cache(table, key, now) ==
    IF table[key].present /\ TextGreater(table[key].expires_at, isoformat(now))
    THEN table[key].value
    ELSE <<>>

\* db.set_cache: INSERT OR REPLACE INTO cache (key, value, created_at, expires_at)
set_cache(table, key, value, ttl_days, now) ==
    [table EXCEPT ![key] = CacheRow(value, isoformat(now),
                                    isoformat(now + timedelta_days(ttl_days)))]

\* What the primary service answers: a route while it is up, nothing in time
\* while it is down.
CacheResponses(up) ==
    IF up THEN {[kind |-> "route", distance |-> 1600, duration |-> 160]}
    ELSE {[kind |-> "timeout", distance |-> NoNumber, duration |-> NoNumber]}

\* An operation on the cache.
CacheCall(op, key, use_cache, now, before, asked, outcome) ==
    [op |-> op, key |-> key, use_cache |-> use_cache, now |-> now, before |-> before,
     asked |-> asked, outcome |-> outcome]

NoCacheCall == CacheCall("none", <<0, 0>>, FALSE, 0, NoRow, FALSE, Returned(NoRoute))

CacheInit ==
    /\ c_now = 0
    /\ c_table = [key \in CachePairs |-> NoRow]
    /\ c_up \in BOOLEAN
    /\ c_call = NoCacheCall
    /\ c_calls = 0

\* The clock advances, by a tick or to the tick before a row written now expires.
CacheTick ==
    /\ UNCHANGED notCacheVars
    /\ \E d \in {1, timedelta_days(CACHE_TTL_DAYS) - 1} :
          /\ c_now + d <= MaxCacheDays * CacheTicksPerDay
          /\ c_now' = c_now + d
    /\ UNCHANGED <<c_table, c_up, c_call, c_calls>>

\* The primary service goes down or comes back.
PrimaryChanges ==
    /\ UNCHANGED notCacheVars
    /\ c_up' = ~c_up
    /\ UNCHANGED <<c_now, c_table, c_call, c_calls>>

\* get_route(origin, dest, use_cache): "if cached" holds for a text that is not
\* empty; the result of a call that asked is stored when the cache is used.
CachedGetRoute ==
    /\ UNCHANGED notCacheVars
    /\ c_calls < MaxCacheCalls
    /\ c_calls' = c_calls + 1
    /\ \E key \in CachePairs, use_cache \in BOOLEAN, response \in CacheResponses(c_up) :
          LET cached == get_cache(c_table, key, c_now)
              cache == [k \in CachePairs |->
                           IF k = key /\ cached # <<>> THEN json_loads(cached) ELSE NoRoute]
              done == get_route(cache, key[1], key[2], use_cache, TRUE, response, TRUE)
              asked == ~(use_cache /\ cached # <<>>)
          IN /\ c_table' = IF done.cache[key] # cache[key]
                           THEN set_cache(c_table, key, model_dump_json(done.cache[key]),
                                          CACHE_TTL_DAYS, c_now)
                           ELSE c_table
             /\ c_call' = CacheCall("get_route", key, use_cache, c_now, c_table[key],
                                    asked, done.outcome)
    /\ UNCHANGED <<c_now, c_up>>

\* db.set_cache(key, value, ttl_days) with the text of a route, as the adapters
\* call it.
CacheWrite ==
    /\ UNCHANGED notCacheVars
    /\ c_calls < MaxCacheCalls
    /\ c_calls' = c_calls + 1
    /\ \E key \in CachePairs, response \in CacheResponses(TRUE) :
          LET result == get_route_osrm(key[1], key[2], response, TRUE).value
          IN /\ c_table' = set_cache(c_table, key, model_dump_json(result),
                                     CACHE_TTL_DAYS, c_now)
             /\ c_call' = CacheCall("set_cache", key, TRUE, c_now, c_table[key], FALSE,
                                    Returned(result))
    /\ UNCHANGED <<c_now, c_up>>

CacheNext == CacheTick \/ PrimaryChanges \/ CachedGetRoute \/ CacheWrite

\* No cache.
CacheOff ==
    /\ c_now = 0 /\ c_table = <<>> /\ c_up = FALSE /\ c_call = NoCacheCall /\ c_calls = 0

(***************************************************************************)
(*                       THE FILTER OF TIER 1                              *)
(***************************************************************************)

\* config.OSM_SEARCH_RADIUS_MILES
OSM_SEARCH_RADIUS_MILES == 10

\* The most candidates filtered.
MaxFiltered == 3

\* The places filtered: near and far, of addresses at home and abroad.
FilterPlaces ==
    { PlaceWithAddress(90, 1, 3, HomeCountry), PlaceWithAddress(80, 1, 25, HomeCountry),
      PlaceWithAddress(90, 1, 26, HomeCountry), PlaceWithAddress(90, 1, 3, "ireland"),
      PlaceWithAddress(60, 2, 12, "canada"), PlaceWithAddress(60, 2, 40, "mexico") }

FilterInit ==
    /\ f_pc = "call"
    /\ f_candidates \in SeqsUpTo(FilterPlaces, MaxFiltered)
    /\ f_max_distance_miles \in {OSM_SEARCH_RADIUS_MILES, OSM_EXPANDED_RADIUS_MILES}
    /\ f_filtered = <<>>

\* filter_osm_results(candidates, home_lat, home_lon, max_distance_miles)
FilterCall ==
    /\ UNCHANGED notFilterVars
    /\ f_pc = "call"
    /\ f_filtered' = filter_osm_results(f_candidates, f_max_distance_miles)
    /\ f_pc' = "done"
    /\ UNCHANGED <<f_candidates, f_max_distance_miles>>

FilterNext == FilterCall

\* No call of the filter.
FilterOff ==
    f_pc = "off" /\ f_candidates = <<>> /\ f_max_distance_miles = 0 /\ f_filtered = <<>>

(***************************************************************************)
(*                           SPECIFICATIONS                                *)
(***************************************************************************)

InitOptimizer == OptInit /\ GateOff /\ PlanOff /\ ResOff /\ RouteOff /\ RankOff /\ CacheOff /\ FilterOff

SpecOptimizer == InitOptimizer /\ [][OptNext]_vars

\* optimize_2opt called by itself.  Its loops have no wait in them: a step that
\* can be taken is taken.
InitTwoOpt == InitOptimizer /\ o_entry = "optimize_2opt"

TwoOptNext == TwoOptStart \/ TwoOptIter \/ TwoOptReturn

SpecTwoOpt == InitTwoOpt /\ [][TwoOptNext]_vars /\ WF_vars(TwoOptNext)

InitRateLimit == GateInit /\ OptOff /\ PlanOff /\ ResOff /\ RouteOff /\ RankOff /\ CacheOff /\ FilterOff

InitPlanner == PlanInit /\ OptOff /\ GateOff /\ ResOff /\ RouteOff /\ RankOff /\ CacheOff /\ FilterOff

SpecPlanner == InitPlanner /\ [][PlanNext]_vars

InitResolver == ResInit /\ OptOff /\ GateOff /\ PlanOff /\ RouteOff /\ RankOff /\ CacheOff /\ FilterOff

SpecResolver == InitResolver /\ [][ResNext]_vars

InitFeasibleWindow == WindowInit /\ OptOff /\ GateOff /\ ResOff /\ RouteOff /\ RankOff /\ CacheOff /\ FilterOff

SpecFeasibleWindow == InitFeasibleWindow /\ [][PlanNext]_vars

InitPipeline == PipelineInit /\ GateOff /\ ResOff /\ RouteOff /\ RankOff /\ CacheOff /\ FilterOff

InitRanking == RankInit /\ OptOff /\ GateOff /\ PlanOff /\ ResOff /\ RouteOff /\ CacheOff /\ FilterOff

SpecRanking == InitRanking /\ [][RankNext]_vars

InitCache == CacheInit /\ OptOff /\ GateOff /\ PlanOff /\ ResOff /\ RouteOff /\ RankOff /\ FilterOff

SpecCache == InitCache /\ [][CacheNext]_vars

InitFilter == FilterInit /\ OptOff /\ GateOff /\ PlanOff /\ ResOff /\ RouteOff /\ RankOff /\ CacheOff

SpecFilter == InitFilter /\ [][FilterNext]_vars

InitRouting == RouteInit /\ OptOff /\ GateOff /\ PlanOff /\ ResOff /\ RankOff /\ CacheOff /\ FilterOff

SpecRouting == InitRouting /\ [][RouteNext]_vars

SpecPipeline == InitPipeline /\ [][PipelineNext]_vars

SpecRateLimit == InitRateLimit /\ [][GateNext]_vars

(***************************************************************************)
(* Claims about the optimizer.                                             *)
(***************************************************************************)

OptDone == o_pc = "done" /\ o_entry = "optimize_route"

\* C2: every result of optimize_route has total_distance_km <= naive_distance_km,
\* the distance of visiting the stops in input order.
C2_TotalAtMostNaive ==
    OptDone => o_result.total_distance_km <= o_result.naive_distance_km

\* order holds every index 0..n-1 exactly once.
IsPermutation(order, n) ==
    /\ Len(order) = n
    /\ \A i \in 0..(n - 1) : Cardinality({p \in 1..n : order[p] = i}) = 1

\* C5: the stop_order returned is a permutation of 0..N-1 for every method; nearest
\* neighbour visits no stop twice, and the order stays a permutation after every
\* reversal 2-opt accepts.
C5_StopOrderIsPermutation ==
    /\ o_pc = "done" => IsPermutation(o_result.stop_order, Len(o_stops))
    /\ o_pc = "twoopt" => IsPermutation(o_order, Len(o_stops))
    /\ o_pc = "nn" =>
          /\ Len(o_order) = Cardinality(o_visited)
          /\ o_visited = {o_order[p] : p \in 1..Len(o_order)}
          /\ o_visited \subseteq 0..(Len(o_stops) - 1)

\* A call of optimize_route on the longest list has returned after 2-opt accepted a
\* reversal.
C5_Witness ==
    /\ OptDone
    /\ o_result.method = "nearest_neighbor_2opt"
    /\ o_iter >= 2
    /\ o_result.stop_order # RangeOrder(Len(o_stops))

\* The position of order in permutations(range(n)).
PermIndex(order) ==
    LET perms == PermTable[Len(order)]
    IN CHOOSE k \in 1..Len(perms) : perms[k] = order

\* C6: for 2..6 stops the order brute force returns is no longer than any
\* permutation of the stops, and every permutation enumerated before it is
\* strictly longer (ties go to the first one seen).
C6_BruteForceOptimal ==
    (OptDone /\ o_result.method = "brute_force") =>
        LET n == Len(o_stops)
            perms == PermTable[n]
            best == o_result.stop_order
            dbest == calculate_route_distance(o_start, o_stops, best, o_ret)
            kbest == PermIndex(best)
        IN /\ n >= 2 /\ n <= BRUTE_FORCE_MAX
           /\ o_result.total_distance_km = round2(dbest)
           /\ \A k \in 1..Len(perms) :
                 LET d == calculate_route_distance(o_start, o_stops, perms[k], o_ret)
                 IN dbest <= d /\ (k < kbest => dbest < d)

\* Brute force on six stops returned an order other than the input order although
\* a later permutation is just as short.
C6_Witness ==
    /\ OptDone
    /\ o_result.method = "brute_force"
    /\ Len(o_stops) = BRUTE_FORCE_MAX
    /\ PermIndex(o_result.stop_order) > 1
    /\ \E k \in (PermIndex(o_result.stop_order) + 1)..Len(PermTable[Len(o_stops)]) :
          calculate_route_distance(o_start, o_stops, PermTable[Len(o_stops)][k], o_ret)
            = calculate_route_distance(o_start, o_stops, o_result.stop_order, o_ret)

(***************************************************************************)
(* Claims about the rate-limit gate.                                       *)
(***************************************************************************)

\* C3: any two requests the gate lets through are at least the minimum interval
\* (1 s) apart, whatever the interleaving of the calling threads.
C3_ReleasesSpaced ==
    \A i, j \in 1..Len(g_released) :
        i < j => g_released[j] - g_released[i] >= RateLimitTicks

(***************************************************************************)
(* Claims about the day scheduler.                                         *)
(***************************************************************************)

\* generate_plan has returned its PlanResult.
PlanDone == p_pc = "done"

\* The half-open intervals [start, end) of two items share no instant.
Disjoint(a, b) == a.end <= b.start \/ b.end <= a.start

\* C1: in every PlanResult any two distinct scheduled items, of any kind, have
\* disjoint half-open intervals [start, end).
C1_ItemsPairwiseDisjoint ==
    PlanDone =>
        \A i, j \in 1..Len(p_scheduled) :
            i < j => Disjoint(p_scheduled[i], p_scheduled[j])

\* The positions of the items of kind fixed that run from start to end.
FixedItemsAt(start, end) ==
    {i \in 1..Len(p_scheduled) :
        /\ p_scheduled[i].type = "fixed"
        /\ p_scheduled[i].start = start
        /\ p_scheduled[i].end = end}

\* The input fixed blocks that run from start to end.
BlocksAt(start, end) ==
    {b \in 1..Len(p_blocks) : p_blocks[b].start = start /\ p_blocks[b].end = end}

\* C7: the items of kind fixed correspond one-to-one with the input fixed blocks:
\* for every start and end there are as many fixed items as blocks with that start
\* and end, from the moment the schedule is set up to the PlanResult.
C7_FixedItemsMatchBlocks ==
    p_pc \in {"greedy", "backfill", "finish", "done"} =>
        /\ \A b \in 1..Len(p_blocks) :
              Cardinality(FixedItemsAt(p_blocks[b].start, p_blocks[b].end))
                = Cardinality(BlocksAt(p_blocks[b].start, p_blocks[b].end))
        /\ \A i \in 1..Len(p_scheduled) :
              p_scheduled[i].type = "fixed" =>
                  BlocksAt(p_scheduled[i].start, p_scheduled[i].end) # {}

\* A plan with an errand and two fixed blocks, one of them running past the end of
\* the day, has been returned.
C7_Witness ==
    /\ PlanDone
    /\ Len(p_blocks) = 2
    /\ p_blocks[1] # p_blocks[2]
    /\ \E b \in 1..2 : p_blocks[b].end > DayEnd
    /\ \E i \in 1..Len(p_scheduled) :
          p_scheduled[i].type = "task" /\ IsErrand(p_tasks[p_scheduled[i].task])

\* C8: no item of kind task, placed by the greedy loop or by the backfill of the
\* gaps, overlaps a fixed block of the plan date.
C8_TasksClearOfFixedBlocks ==
    p_pc \in {"greedy", "backfill", "finish", "done"} =>
        \A i \in 1..Len(p_scheduled) : \A b \in 1..Len(p_blocks) :
            p_scheduled[i].type = "task" =>
                ~(p_scheduled[i].start < p_blocks[b].end
                    /\ p_blocks[b].start < p_scheduled[i].end)

\* A plan has been returned in which an errand and a home task are both scheduled
\* on a day with a fixed block inside the working hours.
C8_Witness ==
    /\ PlanDone
    /\ \E i, j \in 1..Len(p_scheduled) : \E b \in 1..Len(p_blocks) :
          /\ p_scheduled[i].type = "task" /\ IsErrand(p_tasks[p_scheduled[i].task])
          /\ p_scheduled[j].type = "task" /\ ~IsErrand(p_tasks[p_scheduled[j].task])
          /\ p_blocks[b].start >= DayStart /\ p_blocks[b].end <= DayEnd

\* The latest end of the scheduled items.
LatestEnd == SetMax({p_scheduled[i].end : i \in 1..Len(p_scheduled)})

\* C9: fits_in_window is false iff the latest end of the items is after day_end, and
\* then overtime is the excess and buffer is 0; otherwise fits_in_window is true,
\* overtime is 0 and buffer is the time left to day_end; a plan with no items fits.
C9_WindowValidation ==
    PlanDone =>
        IF p_scheduled = <<>>
        THEN p_result.fits_in_window
        ELSE /\ p_result.fits_in_window <=> ~(LatestEnd > DayEnd)
             /\ LatestEnd > DayEnd =>
                   /\ p_result.overtime_minutes = LatestEnd - DayEnd
                   /\ p_result.buffer_minutes = 0
             /\ LatestEnd <= DayEnd =>
                   /\ p_result.overtime_minutes = 0
                   /\ p_result.buffer_minutes = DayEnd - LatestEnd

\* A plan whose last item ends exactly at day_end has been returned, and it fits.
C9_Witness ==
    /\ PlanDone
    /\ p_scheduled # <<>>
    /\ LatestEnd = DayEnd
    /\ p_result.fits_in_window
    /\ p_result.buffer_minutes = 0

\* C10 as stated: a plan that does not fit has between one and five suggestions, a
\* plan that fits has none.
C10_OverrunAlwaysHasSuggestions ==
    PlanDone =>
        IF p_result.fits_in_window
        THEN p_result.suggestions = <<>>
        ELSE Len(p_result.suggestions) >= 1 /\ Len(p_result.suggestions) <= MAX_SUGGESTIONS

\* C10: a plan that does not fit has at most five suggestions, and at least one
\* whenever the overtime is at most 60 minutes; a plan that fits has none.
C10_SuggestionsBounded ==
    PlanDone =>
        IF p_result.fits_in_window
        THEN p_result.suggestions = <<>>
        ELSE /\ Len(p_result.suggestions) <= MAX_SUGGESTIONS
             /\ p_result.overtime_minutes <= Minutes(OVERTIME_SHIFT_MAX_MIN) =>
                   Len(p_result.suggestions) >= 1

\* A plan that overruns the day by at most 60 minutes has been returned with five
\* suggestions, its two tasks giving rise to more.
C10_Witness ==
    /\ PlanDone
    /\ ~p_result.fits_in_window
    /\ p_result.overtime_minutes <= Minutes(OVERTIME_SHIFT_MAX_MIN)
    /\ Len(p_result.suggestions) = MAX_SUGGESTIONS
    /\ Cardinality(p_done) = 2

(***************************************************************************)
(* Claims about the place resolver                                         *)
(***************************************************************************)

\* C4: after any sequence of resolve_place and select_candidate calls, with
\* indices in range or out of it, every ResolvedPlace returned has is_resolved
\* exactly when its decision is auto_best or user_selected, has
\* needs_disambiguation exactly when its decision is pending, and, when it is
\* resolved, has a selected candidate that is one of its candidates.
C4_ResolvedPlaceInvariants ==
    \A k \in 1..Len(r_places) :
        LET resolved == r_places[k]
        IN /\ is_resolved(resolved) <=> resolved.decision \in {"auto_best", "user_selected"}
           /\ needs_disambiguation(resolved) <=> resolved.decision = "pending"
           /\ is_resolved(resolved) =>
                 /\ resolved.selected # NoCandidate
                 /\ resolved.selected \in DOMAIN r_heap
                 /\ \E i \in 1..Len(resolved.candidates) :
                        resolved.candidates[i] = resolved.selected

\* resolve_place left the choice among several candidates to the user, one call of
\* select_candidate was out of range and one selected a candidate.
C4_Witness ==
    /\ Len(r_places) > 1
    /\ r_places[1].decision = "pending"
    /\ Len(r_places[1].candidates) > 1
    /\ r_places[Len(r_places)].decision = "user_selected"
    /\ r_selects > Len(r_places) - 1

\* The place resolve_place returned.
Resolved == r_places[1]

C16_HomeNotSetRaises ==
    (r_pc = "done" /\ ~r_home) => r_places = <<>>

\* C17: select_candidate(resolved, i) with i in range returns a ResolvedPlace with
\* decision user_selected, selected = candidates[i], reason "User selected" and the
\* same candidate list in the same order; with i out of range (negative, or at or
\* past the length, the empty list included) it returns resolved itself and changes
\* nothing.
C17_SelectCandidateContract ==
    [][r_selects' # r_selects =>
        LET resolved == r_places[r_call'.resolved]
            i == r_call'.candidate_index
            returned == r_places'[r_call'.returned]
        IN IF 0 <= i /\ i < Len(resolved.candidates)
           THEN /\ returned.decision = "user_selected"
                /\ returned.selected = resolved.candidates[i + 1]
                /\ returned.decision_reason = "User selected"
                /\ returned.candidates = resolved.candidates
                /\ r_places'[r_call'.resolved].candidates = resolved.candidates
           ELSE /\ r_call'.returned = r_call'.resolved
                /\ r_places' = r_places
                /\ r_heap' = r_heap]_vars

\* A pending place with two candidates or more had its second candidate selected.
C17_Witness ==
    /\ r_call.candidate_index = 1
    /\ r_call.returned = 2
    /\ r_places[1].decision = "pending"
    /\ r_places[2].decision = "user_selected"
    /\ r_places[2].selected = r_places[1].candidates[2]

(***************************************************************************)
(* Further claims about the day scheduler                                  *)
(***************************************************************************)

\* C11: a task with no coordinates is never placed on the timeline, and the plan
\* returned has it in overflow with reason "Missing location".
C11_NoCoordinatesOverflow ==
    \A k \in 1..Len(p_tasks) :
        ~has_location(p_tasks[k]) =>
            /\ \A i \in 1..Len(p_scheduled) : p_scheduled[i].task # k
            /\ PlanDone =>
                  \E i \in 1..Len(p_overflow) :
                      p_overflow[i] = OverflowTask(k, "Missing location")

\* The latest of the start of the day, the opening time and the earliest start.
WindowStart(task) ==
    SetMax({DayStart} \cup ({task.open, task.earliest} \ {NoTime}))

\* The earliest of the end of the day, the closing time and the latest end.
WindowEnd(task) ==
    SetMin({DayEnd} \cup ({task.close, task.latest} \ {NoTime}))

\* C13: the feasible window of an errand is the intersection of the day, the
\* opening hours and the task's earliest start and latest end, and the errand has
\* one exactly when the intersection is not empty and at least as long as the
\* task; an errand without one is in overflow with reason "No feasible time
\* window" and is never scheduled.
C13_FeasibleWindow ==
    p_pc \notin {"start", "off"} =>
        \A k \in 1..Len(p_tasks) :
            LET task == p_tasks[k]
                fits == /\ WindowStart(task) < WindowEnd(task)
                        /\ WindowEnd(task) - WindowStart(task)
                              >= task.duration_minutes * PlanTicksPerMinute
            IN IsErrand(task) =>
                 /\ p_windows[k] # NoWindow <=> fits
                 /\ fits => p_windows[k] = [start |-> WindowStart(task), end |-> WindowEnd(task)]
                 /\ ~fits =>
                       /\ \E i \in 1..Len(p_overflow) :
                              p_overflow[i] = OverflowTask(k, "No feasible time window")
                       /\ \A i \in 1..Len(p_scheduled) : p_scheduled[i].task # k

\* A plan with an errand whose window is exactly as long as the task, which is
\* scheduled in it.
C13_Witness ==
    /\ PlanDone
    /\ \E k \in 1..Len(p_tasks) :
          /\ IsErrand(p_tasks[k])
          /\ p_tasks[k].earliest # NoTime
          /\ p_tasks[k].latest # NoTime
          /\ WindowEnd(p_tasks[k]) - WindowStart(p_tasks[k])
                = p_tasks[k].duration_minutes * PlanTicksPerMinute
          /\ \E i \in 1..Len(p_scheduled) :
                p_scheduled[i].type = "task" /\ p_scheduled[i].task = k

(***************************************************************************)
(* Claims about the app pipeline                                           *)
(***************************************************************************)

\* C12: in the plan built by the pipeline, the errands scheduled appear on the
\* timeline in the order of the optimizer's stop_order (task k is the k-th stop
\* of that order).
C12_ScheduleFollowsStopOrder ==
    PlanDone =>
        \A i, j \in 1..Len(p_scheduled) :
            /\ p_scheduled[i].type = "task"
            /\ p_scheduled[j].type = "task"
            /\ p_scheduled[i].start < p_scheduled[j].start
            => p_scheduled[i].task < p_scheduled[j].task

(***************************************************************************)
(* Claims about routing                                                    *)
(***************************************************************************)

\* C14: get_route returns a RouteResult whatever the request to the primary
\* service comes to - no connection, a timeout, an error status, a code other
\* than "Ok", a malformed payload - and never raises: where the primary service
\* gave no route, the result is the fallback's.
C14_GetRouteNeverRaises ==
    rt_calls > 0 =>
        /\ rt_call.outcome.raised = "none"
        /\ rt_call.outcome.value # NoRoute
        /\ (~rt_call.hit /\ ~(rt_call.response.kind = "route"
                               /\ rt_call.response.distance # NoNumber
                               /\ rt_call.response.duration # NoNumber))
              => rt_call.outcome.value = get_route_fallback(rt_call.origin, rt_call.dest)

(***************************************************************************)
(* Claims about the ranking                                                *)
(***************************************************************************)

\* The candidate at a position of the list should_auto_select was given.
Ranked(i) == k_in.heap[k_in.list[i]]

\* C18: should_auto_select follows the decision table, top-down, on the final list:
\* no candidate, no auto-select; one candidate, auto-select (only_match) iff its
\* similarity is at least 50; two or more: top - second combined_score >= 15 gives
\* clear_winner; else top similarity >= 80 and distance <= 10 mi gives
\* best_overall_score; else top and second both of similarity >= 70, of the same
\* brand and top strictly closer gives closest_to_home; otherwise no auto-select.
C18_AutoSelectTable ==
    k_pc = "done" =>
        LET n == Len(k_in.list)
            gap == Ranked(1).combined_score - Ranked(2).combined_score
            winner == gap >= 150
            overall == Ranked(1).name_similarity >= 80 /\ Ranked(1).distance_miles <= 10
            closer == /\ Ranked(1).name_similarity >= 70
                      /\ Ranked(2).name_similarity >= 70
                      /\ Ranked(1).place.brand = Ranked(2).place.brand
                      /\ Ranked(1).distance_miles < Ranked(2).distance_miles
        IN /\ n = 0 => ~k_auto[1]
           /\ n = 1 => /\ k_auto[1] <=> Ranked(1).name_similarity >= 50
                       /\ k_auto[1] => k_auto[2] = "only_match"
           /\ n >= 2 =>
                /\ winner => k_auto = <<TRUE, "clear_winner">>
                /\ (~winner /\ overall) => k_auto = <<TRUE, "best_overall_score">>
                /\ (~winner /\ ~overall /\ closer) => k_auto = <<TRUE, "closest_to_home">>
                /\ (~winner /\ ~overall /\ ~closer) => ~k_auto[1]

\* Two branches of a brand more than 10 miles away, scores less than 15 apart: the
\* third row decides.
C18_Witness ==
    /\ k_pc = "done"
    /\ Len(k_in.list) >= 2
    /\ k_auto = <<TRUE, "closest_to_home">>
    /\ Ranked(1).distance_miles > 10

\* A candidate of the list given to the tie-break is of the brand of its top.
SameBrandAsTop(c) ==
    /\ k_in.heap[c].name_similarity >= 70
    /\ k_in.heap[k_in.list[1]].name_similarity >= 70
    /\ k_in.heap[c].place.brand = k_in.heap[k_in.list[1]].place.brand

\* The length of the leading same-brand run: the top and the candidates directly
\* following it that are of its brand.
LeadingRun ==
    CHOOSE m \in 1..Len(k_in.list) :
        /\ \A i \in 2..m : SameBrandAsTop(k_in.list[i])
        /\ m < Len(k_in.list) => ~SameBrandAsTop(k_in.list[m + 1])

\* C19: apply_home_proximity_tiebreak re-sorts only the leading same-brand run of the
\* score-sorted list, ascending by distance_miles, and annotates its new leader
\* closest_to_home; every candidate outside the run keeps its position, and a list
\* whose top has no same-brand partner is returned unchanged.
C19_OnlyLeadingRunResorted ==
    (k_pc = "route" /\ k_in.list # <<>>) =>
        LET m == LeadingRun
        IN /\ Len(k_out.list) = Len(k_in.list)
           /\ {k_out.list[i] : i \in 1..m} = {k_in.list[i] : i \in 1..m}
           /\ \A i \in 1..(m - 1) :
                 k_out.heap[k_out.list[i]].distance_miles
                    <= k_out.heap[k_out.list[i + 1]].distance_miles
           /\ \A i \in (m + 1)..Len(k_in.list) : k_out.list[i] = k_in.list[i]
           /\ m >= 2 => k_out.heap[k_out.list[1]].selection_reason = "closest_to_home"
           /\ (\A i \in 2..Len(k_in.list) : ~SameBrandAsTop(k_in.list[i])) => k_out = k_in

\* The candidates of the list given to the function applied last.
Given == {k_in.list[i] : i \in DOMAIN k_in.list}

\* The candidates given to select_best_for_route that are of the brand of the top.
RouteSameBrand ==
    {c \in Given :
        /\ k_in.heap[c].name_similarity >= 70
        /\ k_in.heap[c].place.brand = k_in.heap[k_in.list[1]].place.brand}

\* dist(prev, c) + dist(c, home)
Added(c) ==
    Abs(k_route.prev.pos - k_in.heap[c].place.pos) + Abs(k_in.heap[c].place.pos - HomeMiles)

\* The same-brand candidates of the least added distance, and the candidates closest
\* to home.
LeastAdded == {c \in RouteSameBrand : \A d \in RouteSameBrand : Added(c) <= Added(d)}

ClosestToHome ==
    {c \in Given :
        \A d \in Given : k_in.heap[c].distance_miles <= k_in.heap[d].distance_miles}

\* C20: select_best_for_route, for the last stop of a route that returns home, given
\* a previous stop and two same-brand candidates or more, promotes the same-brand
\* candidate of the least dist(prev, c) + dist(c, home) to position 0 with reason
\* best_for_route iff it is not the closest to home; in every other case the order
\* is returned unchanged.
C20_BestForRoutePromoted ==
    (k_pc = "auto" /\ k_in.list # <<>>) =>
        IF /\ k_route.is_last_stop /\ k_route.return_home /\ k_route.prev.given
           /\ Cardinality(RouteSameBrand) >= 2
        THEN /\ LeastAdded \cap ClosestToHome = {} =>
                   /\ k_out.list[1] \in LeastAdded
                   /\ k_out.heap[k_out.list[1]].selection_reason = "best_for_route"
             /\ (Cardinality(LeastAdded) = 1 /\ LeastAdded = ClosestToHome) =>
                   k_out.list = k_in.list
        ELSE k_out.list = k_in.list

(***************************************************************************)
(* Claims about the cache                                                  *)
(***************************************************************************)

\* The tick a stored timestamp stands for.
Ticks(text) == text[1] * CacheTicksPerDay + (IF Len(text) > 1 THEN text[2] ELSE 0)

\* The row the last operation wrote.
Written == c_table[c_call.key]

\* C21: a cached call whose key has an unexpired row returns the cached value and
\* does not ask the provider; a row whose expires_at has passed is never returned,
\* the provider is asked again; and a write to a key replaces the value and the
\* expiry the key had (last write wins).
C21_CacheDiscipline ==
    /\ (c_call.op = "get_route" /\ c_call.use_cache /\ c_call.before.present) =>
          /\ Ticks(c_call.before.expires_at) > c_call.now =>
                /\ ~c_call.asked
                /\ c_call.outcome = Returned(json_loads(c_call.before.value))
          /\ Ticks(c_call.before.expires_at) < c_call.now => c_call.asked
    /\ (\/ c_call.op = "set_cache"
        \/ c_call.op = "get_route" /\ c_call.use_cache /\ c_call.asked) =>
          /\ Written.present
          /\ Written.value = model_dump_json(c_call.outcome.value)
          /\ Ticks(Written.expires_at) = c_call.now + CACHE_TTL_DAYS * CacheTicksPerDay

\* A call on the last tick before the row expires, the row written between two
\* whole days, is answered from the cache.
C21_Witness ==
    /\ c_call.op = "get_route"
    /\ c_call.before.present
    /\ ~c_call.asked
    /\ Len(c_call.before.expires_at) > 1
    /\ Ticks(c_call.before.expires_at) = c_call.now + 1

\* C30: the estimate get_route falls back to is stored under the key of the pair,
\* and every later cached call for the pair returns it without asking the primary
\* service until the row expires, even when the primary service is up again.
C30_FallbackStaysCached ==
    /\ (c_call.op = "get_route" /\ c_call.use_cache /\ c_call.asked
          /\ c_call.outcome.value.source = "fallback") =>
          Written.value = model_dump_json(get_route_fallback(c_call.key[1], c_call.key[2]))
    /\ (c_call.op = "get_route" /\ c_call.use_cache /\ c_call.before.present
          /\ c_call.before.value[5][2] = "fallback"
          /\ Ticks(c_call.before.expires_at) > c_call.now) =>
          /\ ~c_call.asked
          /\ c_call.outcome = Returned(get_route_fallback(c_call.key[1], c_call.key[2]))

\* The primary service is up, and the call returned the estimate from the cache.
C30_Witness ==
    /\ c_call.op = "get_route"
    /\ c_call.use_cache
    /\ c_up
    /\ ~c_call.asked
    /\ c_call.outcome.value.source = "fallback"

(***************************************************************************)
(* Claims about the filter of tier 1                                       *)
(***************************************************************************)

\* C22: filter_osm_results drops every candidate farther than max_distance_miles
\* from the start and every candidate whose address names another country (ireland,
\* united kingdom, canada, mexico, australia), and keeps the others in their order.
C22_FilterDropsFarAndForeign ==
    f_pc = "done" =>
        f_filtered =
            SelectSeq(f_candidates,
                LAMBDA c : /\ Abs(c.pos - HomeMiles) <= f_max_distance_miles
                           /\ c.address \notin {"ireland", "united kingdom", "canada",
                                                "mexico", "australia"})

(***************************************************************************)
(* Claims about the tiers of resolve_place                                 *)
(***************************************************************************)

\* The place of a provider in the order of the tiers.
TierRank(provider) ==
    CASE provider = "nearby" -> 1 [] provider = "expanded" -> 2 [] provider = "geocode" -> 3
      [] provider = "google" -> 4 [] provider = "gemini" -> 5 [] provider = "tavily" -> 6

\* The requests were made in the order of the tiers, the first of them the search
\* nearby; the expanded search after a search nearby that found nothing, the
\* geocoding after both searches found nothing.
InTierOrder(asked) ==
    /\ \A i, j \in DOMAIN asked :
          i < j => TierRank(asked[i].provider) < TierRank(asked[j].provider)
    /\ asked # <<>> => asked[1].provider = "nearby"
    /\ \A i \in DOMAIN asked :
          /\ asked[i].provider = "expanded" => i = 2 /\ asked[1] = Asked("nearby", 0)
          /\ asked[i].provider = "geocode" =>
                i = 3 /\ asked[1] = Asked("nearby", 0) /\ asked[2] = Asked("expanded", 0)

\* C23: resolve_place asks the tiers in the order A, B, C, D; in tier A the search
\* with the expanded radius is made only after the search nearby returned nothing
\* and the geocoding only after both returned nothing; a place found by tier B or
\* tier D is put at position 0 and the candidates before it all stay, in their order.
C23_TiersInOrderAndPrepend ==
    [][/\ InTierOrder(r_asked')
       /\ r_pc \in {"tier2", "tier4"} =>
             IF r_asked' # r_asked /\ r_asked'[Len(r_asked')].found = 1
             THEN /\ Len(r_cands') = Len(r_cands) + 1
                  /\ r_cands'[1] \in PlaceChoices
                  /\ Tail(r_cands') = r_cands
             ELSE r_cands' = r_cands]_vars

\* All four tiers were asked, tier A thrice, and tiers B and D each added a
\* place on top of the candidates there were.
C23_Witness ==
    /\ r_pc = "decide"
    /\ Len(r_asked) = 6
    /\ r_asked[4] = Asked("google", 1)
    /\ r_asked[6] = Asked("tavily", 1)
    /\ Len(r_cands) = 3

\* The position in the candidates of the place the LLM picked, once tier 4 is over:
\* the top, or below the place the web search put on top.
PickedPosition ==
    IF r_asked # <<>> /\ r_asked[Len(r_asked)] = Asked("tavily", 1) THEN 2 ELSE 1

\* C26: when the LLM validation of tier 3 returns a valid best_index with the
\* confidence high, resolve_place returns auto_best and the candidate selected is
\* the one the LLM picked, the one moved to position 0.
C26_HighConfidencePickSelected ==
    [][(/\ r_pc = "decide"
        /\ r_llm.present /\ r_llm.confidence = "high" /\ r_llm.best_index # NoIndex) =>
            /\ r_places'[1].decision = "auto_best"
            /\ r_places'[1].selected = PickedPosition]_vars

(***************************************************************************)
(* Claims about optimize_2opt                                              *)
(***************************************************************************)

\* The reversals one scan of optimize_2opt tries, (i, j) 0-based.
Reversals == {r \in (0..(Len(o_stops) - 2)) \X (2..(Len(o_stops) - 1)) : r[2] >= r[1] + 2}

\* r comes before q in the scan.
ScannedBefore(r, q) == r[1] < q[1] \/ (r[1] = q[1] /\ r[2] < q[2])

\* The length of the route that visits the stops in the order given.
RouteLength(order) == calculate_route_distance(o_start, o_stops, order, o_ret)

\* Reversing r in the current order lowers the distance by more than 0.001 km.
Lowers(r) == RouteLength(ReverseSegment(o_order, r[1], r[2])) < o_best - EPSILON_M

\* What a step of optimize_2opt keeps to.
TwoOptStepKeeps ==
    /\ (o_pc # "twoopt" /\ o_pc' = "twoopt") =>
          o_order' = o_order /\ o_best' = RouteLength(o_order) /\ o_iter' = 0
    /\ (o_pc = "twoopt" /\ o_pc' = "twoopt") =>
          /\ o_iter' = o_iter + 1 /\ o_iter' <= o_max /\ o_max <= MAX_ITERATIONS
          /\ IF o_order' # o_order
             THEN \E r \in Reversals :
                     /\ o_order' = ReverseSegment(o_order, r[1], r[2])
                     /\ Lowers(r)
                     /\ \A q \in Reversals : ScannedBefore(q, r) => ~Lowers(q)
                     /\ o_best' = RouteLength(o_order')
             ELSE /\ o_best' = o_best
                  /\ \A q \in Reversals : ~Lowers(q)
    /\ (o_pc = "twoopt" /\ o_pc' = "done" /\ o_entry = "optimize_2opt") =>
          /\ o_result'.stop_order = o_order /\ o_result'.distance = o_best
          /\ o_best = RouteLength(o_order)

\* C25: optimize_2opt ends after at most max_iterations (1000 by default) outer
\* iterations; it accepts a reversal only when that lowers the total distance by
\* more than 0.001 km and scans from the start again after each one accepted; the
\* distance it returns is that of the initial order or less.
C25_TwoOptTerminatesAndImproves ==
    /\ [][TwoOptStepKeeps /\ (o_pc' \in {"twoopt", "done"} /\ o_pc = "twoopt" => o_best' <= o_best)]_vars
    /\ (o_pc = "twoopt") ~> (o_pc = "done")

\* optimize_2opt returned because max_iterations was reached, on the iteration
\* that accepted a reversal.
C25_Witness ==
    /\ o_pc = "done" /\ o_entry = "optimize_2opt"
    /\ o_improved /\ o_iter = o_max
    /\ Len(o_stops) > 2

(***************************************************************************)
(* Claims about the greedy loop of generate_plan                           *)
(***************************************************************************)

\* The errands with a feasible window that are not scheduled yet.
Unscheduled ==
    {k \in 1..Len(p_tasks) : IsErrand(p_tasks[k]) /\ p_windows[k] # NoWindow /\ k \notin p_done}

\* When errand k would be reached, started and ended from the current time and place.
ArrivalOf(k) == p_time + route_duration(p_pos, p_tasks[k].loc)

StartOf(k) == Max2(ArrivalOf(k), p_windows[k].start)

EndOf(k) == StartOf(k) + Minutes(p_tasks[k].duration_minutes)

\* Errand k passes every check: it is reached within its window, ends within its
\* window and the day, and overlaps no scheduled item and no fixed block.
Feasible(k) ==
    /\ ArrivalOf(k) <= p_windows[k].end
    /\ EndOf(k) <= p_windows[k].end
    /\ EndOf(k) <= DayEnd
    /\ \A i \in 1..Len(p_scheduled) :
          ~(StartOf(k) < p_scheduled[i].end /\ p_scheduled[i].start < EndOf(k))
    /\ \A b \in 1..Len(p_blocks) :
          ~(StartOf(k) < p_blocks[b].end /\ p_blocks[b].start < EndOf(k))

\* priority_score - 2 * travel_minutes, in tenths.
ScoreOf(k) ==
    calculate_priority_score(p_tasks[k]) * PlanTicksPerMinute
        - TRAVEL_WEIGHT * route_duration(p_pos, p_tasks[k].loc)

\* The task items of errand k in a schedule.
TaskItemsOf(scheduled, k) ==
    {i \in 1..Len(scheduled) : scheduled[i].type = "task" /\ scheduled[i].task = k}

\* C24: every iteration of the greedy loop picks, among the unscheduled errands
\* that pass every feasibility check from the current time and place, the one of
\* the highest score priority_score - 2 * travel_minutes, the earliest in the
\* list among equals; the pick is added once and the current time moves to its
\* end; the loop stops exactly when no unscheduled errand is feasible.
C24_GreedyPicksBestFeasible ==
    [][p_pc = "greedy" =>
          LET feasible == {k \in Unscheduled : Feasible(k)}
          IN IF feasible = {}
             THEN p_pc' = "backfill" /\ p_done' = p_done
             ELSE \E k \in feasible :
                     /\ \A h \in feasible :
                           ScoreOf(k) > ScoreOf(h) \/ (ScoreOf(k) = ScoreOf(h) /\ k <= h)
                     /\ p_pc' = "greedy"
                     /\ p_done' = p_done \cup {k}
                     /\ Cardinality(TaskItemsOf(p_scheduled', k)) = 1
                     /\ TaskItemsOf(p_scheduled, k) = {}
                     /\ p_scheduled'[Len(p_scheduled')] =
                            ScheduledItem("task", StartOf(k), EndOf(k), k, NoMinutes)
                     /\ p_time' = EndOf(k)]_vars

\* Of two feasible errands of the same score the first was picked, and the loop
\* goes on.
C24_Witness ==
    /\ p_pc = "greedy"
    /\ Len(p_tasks) = 2 /\ p_tasks[1] = p_tasks[2] /\ IsErrand(p_tasks[1])
    /\ p_done = {1}
    /\ Feasible(2)

(***************************************************************************)
(* Claims about the result of generate_plan                                *)
(***************************************************************************)

\* The overflow entries of task k.
OverflowOf(k) == {i \in 1..Len(p_overflow) : p_overflow[i].task = k}

\* C27: when generate_plan returns, every task eligible for the plan date has
\* exactly one task item in the timeline or exactly one overflow entry: not both,
\* not two of either, not neither.
C27_EveryTaskAccountedOnce ==
    p_pc = "done" =>
        \A k \in 1..Len(p_tasks) :
            Cardinality(TaskItemsOf(p_scheduled, k)) + Cardinality(OverflowOf(k)) = 1

\* A plan returned with an errand scheduled, a home task scheduled or left over,
\* and an errand left over.
C27_Witness ==
    /\ p_pc = "done"
    /\ \E k \in 1..Len(p_tasks) : IsErrand(p_tasks[k]) /\ TaskItemsOf(p_scheduled, k) # {}
    /\ \E k \in 1..Len(p_tasks) : IsErrand(p_tasks[k]) /\ OverflowOf(k) # {}

\* Errand k, started at t, ends within its window and the day and overlaps no
\* scheduled item (the fixed blocks are among them).
FitsAt(k, t) ==
    LET end == t + Minutes(p_tasks[k].duration_minutes)
    IN /\ t >= p_windows[k].start
       /\ end <= p_windows[k].end
       /\ end <= DayEnd
       /\ \A i \in 1..Len(p_scheduled) :
             ~(t < p_scheduled[i].end /\ p_scheduled[i].start < end)

\* C28: an errand with a feasible window is left over for 'Insufficient time in
\* schedule' only if, from the time and place the greedy loop ended at, there is
\* no start at or after its arrival at which it fits in its window and in the day
\* without overlapping a scheduled item; an errand whose slot at the current time
\* collides with a fixed block is scheduled after the block when time remains.
C28_LeftOverOnlyWhenNothingFits ==
    [][(p_pc = "greedy" /\ p_pc' = "backfill") =>
          \A k \in Unscheduled : ~\E t \in ArrivalOf(k)..DayEnd : FitsAt(k, t)]_vars

\* The task items of the errands in the schedule.
ErrandItems ==
    {i \in 1..Len(p_scheduled) :
        p_scheduled[i].type = "task" /\ IsErrand(p_tasks[p_scheduled[i].task])}

\* Item i is the drive home from the last errand: a travel segment that starts
\* where the last errand ends and takes as long as the route from its place to home.
IsReturnHome(i) ==
    /\ p_scheduled[i].type = "travel"
    /\ \E e \in ErrandItems :
          /\ \A h \in ErrandItems : p_scheduled[h].end <= p_scheduled[e].end
          /\ p_scheduled[i].start = p_scheduled[e].end
          /\ p_scheduled[i].end =
                p_scheduled[i].start + route_duration(p_tasks[p_scheduled[e].task].loc, HomePos)

\* C29: when the return home was asked for, an errand away from home was
\* scheduled and fits_in_window is true, the timeline has a last travel segment
\* back to the start that ends no later than the end of the day.
C29_ReturnHomeInTimeline ==
    (/\ p_pc = "done" /\ p_ret /\ p_result.fits_in_window
     /\ \E e \in ErrandItems : p_tasks[p_scheduled[e].task].loc # HomePos) =>
        \E i \in 1..Len(p_scheduled) :
            /\ IsReturnHome(i)
            /\ p_scheduled[i].end <= DayEnd
            /\ \A j \in 1..Len(p_scheduled) :
                  p_scheduled[j].type = "travel" => p_scheduled[j].start <= p_scheduled[i].start

====
